---------------------------- MODULE Spec2Model ----------------------------
(***************************************************************************)
(* A model of the Anthropic <-> Google Cloud Code Assist proxy             *)
(* (src/proxy.mjs).  The parts of the proxy are modelled each with its own  *)
(* specification over the shared variables:                                *)
(*                                                                         *)
(*   SpecConvert  convertAnthropicToGoogle: model mapping, message         *)
(*                conversion, role-alternation merge, generation config.   *)
(*   SpecStream   streamGoogleToAnthropic: the read loop, the per-part     *)
(*                translation and the closing sequence (SpecStreamFair     *)
(*                adds the fairness of the read loop).                     *)
(*   SpecRace     the request handler's endpoint race                      *)
(*                (Promise.allSettled) and its failure classification.     *)
(*   SpecTools    convertAnthropicToGoogle on requests that carry tools.   *)
(*   SpecSchema   the tool schema normalizer, one pass per step.           *)
(*   SpecBatch    convertGoogleSSEToAnthropicStream; SpecTranslate runs    *)
(*                either translator, SpecAgree both on the same body.      *)
(*   SpecChunks   the read loop over a body delivered in arbitrary chunks; *)
(*                SpecConns runs two such streams at once.                 *)
(*   SpecToken    refreshToken and getToken under two callers.             *)
(*   SpecHandler  the handler from the request to the race; SpecServe      *)
(*                joins it with its call of getToken (SpecServeFair adds   *)
(*                the fairness of the handler's steps).                    *)
(*                                                                         *)
(* JavaScript strings are modelled as sequences of symbols ("" is <<>>),   *)
(* so that concatenation, emptiness and substring search are computed as   *)
(* the code computes them.  undefined/null is the sentinel Undef.          *)
(***************************************************************************)
EXTENDS Integers, Sequences, FiniteSets, TLC

VARIABLES
    \* ---- convertAnthropicToGoogle ----
    req,            \* the parsed client request (anthropicReq)
    googleModel,    \* mapModel(anthropicReq.model)
    rawContents,    \* provider turns before the role-alternation merge
    contents,       \* provider turns after the merge (request.contents)
    generationConfig, \* request.generationConfig
    cpc,            \* position in convertAnthropicToGoogle
    \* ---- streamGoogleToAnthropic ----
    contentIndex,   \* let contentIndex
    started,        \* let started (a text block is open)
    outputTokens,   \* let outputTokens
    inputTokens,    \* let inputTokens
    events,         \* what res.write has written so far, in order
    ended,          \* res.end() was called
    spc,            \* position in streamGoogleToAnthropic
    reads,          \* number of reader.read() calls that have settled
    partsRead,      \* history: parts the upstream has delivered so far
    callsSeen,      \* history: function-call parts the per-part loop reached
    streamError,    \* the catch of the read loop ran (log "[stream error]")
    partsSeen,      \* history: the parts the upstream has delivered, in order
    lastUsage,      \* history: the last usageMetadata the upstream delivered
    lastRead,       \* history: what the last reader.read() settled with
    \* ---- request handler: endpoint race ----
    isStream,       \* anthropicReq.stream === true
    payloadStr,     \* the serialized provider request
    sent,           \* per endpoint: the body of the fetch issued to it
    settled,        \* per endpoint: the outcome of fetchOne, or Pending
    arrival,        \* history: the order in which the candidates settled
    response,       \* what the handler resolved to / wrote to the client
    hpc,            \* position in the handler
    \* ---- tool schema normalizer ----
    inputSchema,    \* tool.input_schema
    cleaned,        \* the schema after the passes run so far
    npc,            \* position in the normalizer
    \* ---- convertGoogleSSEToAnthropicStream ----
    googleSSE,      \* the body of the upstream response, as its lines
    batchEvents,    \* const events: the parsed data lines
    eventIndex,     \* position of the second loop in events
    batchContent,   \* const content
    batchStopReason,    \* let stopReason
    batchInputTokens,   \* let inputTokens
    batchOutputTokens,  \* let outputTokens
    anthropicResp,  \* the returned message
    bpc,            \* position in the batch translator
    \* ---- request handler: before the race ----
    httpRequest,     \* the client's HTTP request (req)
    \* ---- streamGoogleToAnthropic: the bytes of the upstream body ----
    upstream,       \* the whole body of the upstream response, as symbols
    delivered,      \* how many of them reader.read() has delivered
    buffer,         \* let buffer
    \* ---- credentials ----
    creds,          \* let creds: {access_token, expires_at}
    credFile,       \* the contents of CRED_PATH
    now,            \* Date.now()
    ticks,          \* how often the clock has advanced
    issued,         \* how many tokens the token endpoint has issued
    callers,        \* per inbound request: its call of getToken
    \* ---- two connections ----
    conns,          \* per connection: the locals and the output of its stream
    \* ---- convertAnthropicToGoogle: tools ----
    reqTools,       \* anthropicReq.tools
    declarations    \* request.tools[0].functionDeclarations (<<>>: no request.tools)

convVars == <<req, googleModel, rawContents, contents, generationConfig, cpc>>
streamVars == <<contentIndex, started, outputTokens, inputTokens, events,
                ended, spc, reads, partsRead, callsSeen, streamError,
                partsSeen, lastUsage, lastRead>>
raceVars == <<isStream, payloadStr, sent, settled, arrival, response, hpc>>
schemaVars == <<inputSchema, cleaned, npc>>
batchVars == <<googleSSE, batchEvents, eventIndex, batchContent, batchStopReason,
               batchInputTokens, batchOutputTokens, anthropicResp, bpc>>
handlerVars == <<httpRequest>>
chunkVars == <<upstream, delivered, buffer>>
tokenVars == <<creds, credFile, now, ticks, issued, callers>>
connVars == <<conns>>
toolVars == <<reqTools, declarations>>
laterVars == <<chunkVars, tokenVars, connVars, toolVars>>
otherVars == <<schemaVars, batchVars, handlerVars, laterVars>>
vars == <<convVars, streamVars, raceVars, otherVars>>

----------------------------------------------------------------------------
(* Bounds of the model.                                                    *)

MaxMsgs == 3
MaxBlocks == 2
MaxReads == 3
MaxParts == 2
MaxDepth == 2
MaxLines == 3
\* Lines of the upstream body that is delivered in arbitrary chunks.
MaxBodyLines == 2
\* Advances of the clock while the credential is in use.
MaxTicks == 2
\* Tools of a request.
MaxTools == 2

----------------------------------------------------------------------------
(* JavaScript values.                                                      *)

\* undefined / null: a symbol sequence no string of the model equals.
Undef == <<"<undefined>">>

\* A number that stands for an absent numeric field.
Absent == 0 - 1000000

\* JavaScript truthiness of a string-or-undefined and of a number-or-undefined.
TruthyStr(s) == s # Undef /\ s # <<>>
TruthyNum(n) == n # Absent /\ n # 0

Max(a, b) == IF a >= b THEN a ELSE b
Min(a, b) == IF a <= b THEN a ELSE b

\* String.prototype.includes
Includes(s, t) ==
    \E i \in 1..(Len(s) - Len(t) + 1) : SubSeq(s, i, i + Len(t) - 1) = t

\* String.prototype.startsWith
StartsWith(s, t) == Len(s) >= Len(t) /\ SubSeq(s, 1, Len(t)) = t

\* All sequences over S of length at most n.
SeqsUpTo(S, n) == UNION {[1..k -> S] : k \in 0..n}

RECURSIVE Flatten(_)
Flatten(ss) == IF ss = <<>> THEN <<>> ELSE Head(ss) \o Flatten(Tail(ss))

\* Array.prototype.join("\n") over strings; an undefined element joins as "".
RECURSIVE JoinNl(_)
JoinNl(ss) ==
    IF ss = <<>> THEN <<>>
    ELSE LET h == IF Head(ss) = Undef THEN <<>> ELSE Head(ss)
         IN  IF Len(ss) = 1 THEN h ELSE h \o <<"\n">> \o JoinNl(Tail(ss))

\* JSON.stringify of an object or array: some non-empty text.
JsonText == <<"<json>">>

----------------------------------------------------------------------------
(* Model names (strings).  Letters that the code searches for are spelled  *)
(* out; a run of other characters (a version, a date) is one symbol.       *)

Words ==
    [ claude |-> <<"c", "l", "a", "u", "d", "e">>,
      sonnet |-> <<"s", "o", "n", "n", "e", "t">>,
      opus |-> <<"o", "p", "u", "s">>,
      haiku |-> <<"h", "a", "i", "k", "u">>,
      thinking |-> <<"t", "h", "i", "n", "k", "i", "n", "g">> ]

\* The names of the table, then names outside it (opus3 .. haiku4), then
\* names of properties that every object literal inherits from
\* Object.prototype: MODEL_MAP[name] finds them although the table does not
\* list them.
Names ==
    [ sonnet45 |-> Words.claude \o <<"-">> \o Words.sonnet \o <<"-", "4", "-", "5">>,
      sonnet45dated |-> (Words.claude \o <<"-">> \o Words.sonnet \o <<"-", "4", "-", "5">>) \o <<"-", "20250514">>,
      sonnet4dated |-> Words.claude \o <<"-">> \o Words.sonnet \o <<"-", "4", "-", "20250514">>,
      sonnet45thinking |-> (Words.claude \o <<"-">> \o Words.sonnet \o <<"-", "4", "-", "5">>) \o <<"-">> \o Words.thinking,
      opus45 |-> Words.claude \o <<"-">> \o Words.opus \o <<"-", "4", "-", "5">>,
      opus45dated |-> (Words.claude \o <<"-">> \o Words.opus \o <<"-", "4", "-", "5">>) \o <<"-", "20250414">>,
      opus45thinking |-> (Words.claude \o <<"-">> \o Words.opus \o <<"-", "4", "-", "5">>) \o <<"-">> \o Words.thinking,
      opus46 |-> Words.claude \o <<"-">> \o Words.opus \o <<"-", "4", "-", "6">>,
      opus46thinking |-> (Words.claude \o <<"-">> \o Words.opus \o <<"-", "4", "-", "6">>) \o <<"-">> \o Words.thinking,
      haiku35dated |-> Words.claude \o <<"-">> \o Words.haiku \o <<"-", "3", "-", "5", "-", "20241022">>,
      haiku35legacy |-> Words.claude \o <<"-", "3", "-", "5", "-">> \o Words.haiku \o <<"-", "20241022">>,
      opus3 |-> Words.claude \o <<"-", "3", "-">> \o Words.opus,
      sonnet37 |-> Words.claude \o <<"-", "3", "-", "7", "-">> \o Words.sonnet,
      other |-> <<"g", "p", "t", "-", "4">>,
      sonnetopus |-> Words.claude \o <<"-">> \o Words.sonnet \o <<"-">> \o Words.opus,
      haiku4 |-> Words.claude \o <<"-">> \o Words.haiku \o <<"-", "4">>,
      constructor |-> <<"constructor">>,
      toString |-> <<"toString">> ]

\* const MODEL_MAP
MODEL_MAP ==
    (Names.sonnet45dated :> Names.sonnet45) @@
    (Names.sonnet45 :> Names.sonnet45) @@
    (Names.opus45dated :> Names.opus46thinking) @@
    (Names.opus45 :> Names.opus46thinking) @@
    (Names.sonnet4dated :> Names.sonnet45) @@
    (Names.sonnet45thinking :> Names.sonnet45thinking) @@
    (Names.opus45thinking :> Names.opus46thinking) @@
    (Names.opus46thinking :> Names.opus46thinking) @@
    (Names.opus46 :> Names.opus46thinking) @@
    (Names.haiku35dated :> Names.sonnet45) @@
    (Names.haiku35legacy :> Names.sonnet45)

\* What a TypeError thrown by the conversion leaves in place of a result.
ThrowsTypeError == <<"<TypeError>">>

\* MODEL_MAP is an object literal: a lookup by a name the table does not
\* list still finds the properties of Object.prototype, whose values are
\* functions (truthy, and no string).
InheritedKeys == {Names.constructor, Names.toString}
InheritedValue == <<"<function>">>

\* The variant of mapModel that hands a name it does not know to the
\* backend as it is.
mapModelPassThrough(anthropicModel) ==
    IF anthropicModel \in DOMAIN MODEL_MAP THEN MODEL_MAP[anthropicModel]
    ELSE IF anthropicModel \in InheritedKeys THEN InheritedValue
    ELSE IF anthropicModel = Undef THEN ThrowsTypeError
    ELSE anthropicModel

\* function mapModel(anthropicModel).  An undefined model is no key of the
\* table, and undefined.includes throws.
mapModel(anthropicModel) ==
    IF anthropicModel \in DOMAIN MODEL_MAP THEN MODEL_MAP[anthropicModel]
    ELSE IF anthropicModel \in InheritedKeys THEN InheritedValue
    ELSE IF anthropicModel = Undef THEN ThrowsTypeError
    ELSE IF Includes(anthropicModel, Words.opus) THEN Names.opus46thinking
    ELSE IF Includes(anthropicModel, Words.sonnet) THEN Names.sonnet45thinking
    ELSE Names.opus46thinking

\* function isThinkingModel(modelId)
isThinkingModel(modelId) == Includes(modelId, Words.thinking)

----------------------------------------------------------------------------
(* Client messages and content blocks (the parsed JSON of the request).    *)

\* The content of a tool_result block, or of a block of unknown type:
\* null/undefined, a string, an array of blocks, or another object.
ContentNull == [kind |-> "null", str |-> <<>>, items |-> <<>>]
ContentStr(s) == [kind |-> "string", str |-> s, items |-> <<>>]
ContentArr(items) == [kind |-> "array", str |-> <<>>, items |-> items]
ContentObj == [kind |-> "object", str |-> <<>>, items |-> <<>>]

\* A content block.  type "null" is a null entry of the block list; a field
\* the block does not carry is Undef (content: ContentNull).
Block(type, text, id, name, input, content, media, data) ==
    [type |-> type, text |-> text, id |-> id, name |-> name, input |-> input,
     content |-> content, media |-> media, data |-> data]

TextBlock(t) == Block("text", t, Undef, Undef, Undef, ContentNull, Undef, Undef)
ThinkingBlock == Block("thinking", <<"hmm">>, Undef, Undef, Undef, ContentNull, Undef, Undef)
ImageBlock(media, data) == Block("image", Undef, Undef, Undef, Undef, ContentNull, media, data)
ToolUseBlock(id, name, input) == Block("tool_use", Undef, id, name, input, ContentNull, Undef, Undef)
ToolResultBlock(id, content) == Block("tool_result", Undef, id, Undef, Undef, content, Undef, Undef)
UnknownBlock(text, content) == Block("document", text, Undef, Undef, Undef, content, Undef, Undef)
NullBlock == Block("null", Undef, Undef, Undef, Undef, ContentNull, Undef, Undef)

\* The blocks the model draws from.
Blocks ==
    { TextBlock(<<"hi">>), TextBlock(<<>>), TextBlock(Undef),
      ThinkingBlock,
      ImageBlock(<<"image/jpeg">>, <<"b64">>), ImageBlock(Undef, Undef),
      ToolUseBlock(<<"tu1">>, <<"f">>, <<"{x}">>),
      ToolResultBlock(<<"tu1">>, ContentStr(<<"out">>)),
      ToolResultBlock(Undef, ContentNull),
      ToolResultBlock(<<"tu3">>, ContentStr(<<>>)),
      ToolResultBlock(<<"tu2">>, ContentArr(<<[type |-> "text", text |-> <<"a">>],
                                              [type |-> "image", text |-> Undef],
                                              [type |-> "text", text |-> <<"b">>]>>)),
      UnknownBlock(<<"doc">>, ContentNull), UnknownBlock(Undef, ContentObj),
      UnknownBlock(Undef, ContentNull),
      NullBlock }

\* A client message.  kind is the JavaScript type of msg.content ("null": the
\* message itself is null; "other": content is neither a string nor an array).
Message(role, kind, str, blocks) ==
    [role |-> role, kind |-> kind, str |-> str, blocks |-> blocks]

NullMessage == Message("user", "null", <<>>, <<>>)
StringMessage(role, s) == Message(role, "string", s, <<>>)
BlockMessage(role, blocks) == Message(role, "array", <<>>, blocks)
OtherMessage(role) == Message(role, "other", <<>>, <<>>)

----------------------------------------------------------------------------
(* Provider turns and parts.                                               *)

\* A part: exactly one of text, inlineData, functionCall, functionResponse.
Part(kind, text, name, id, payload, mime) ==
    [kind |-> kind, text |-> text, name |-> name, id |-> id,
     payload |-> payload, mime |-> mime]

TextPart(t) == Part("text", t, Undef, Undef, Undef, Undef)
InlineDataPart(mime, data) == Part("inlineData", Undef, Undef, Undef, data, mime)
FunctionCallPart(name, args, id) == Part("functionCall", Undef, name, id, args, Undef)
FunctionResponsePart(name, id, output) ==
    Part("functionResponse", Undef, name, id, output, Undef)

Turn(role, parts) == [role |-> role, parts |-> parts]

\* The placeholder text of a message that became empty.
Placeholder == <<"...">>

IsToolResult(b) == b.type = "tool_result"
IsTextBlock(b) == b.type = "text"
IsTruthyText(b) == b.type = "text" /\ TruthyStr(b.text)

\* function extractText(content)
extractText(content) ==
    IF content.kind = "null" THEN <<"(no output)">>
    ELSE IF content.kind = "string"
         THEN (IF content.str # <<>> THEN content.str ELSE <<"(empty)">>)
    ELSE IF content.kind = "array"
         THEN LET texts == SelectSeq(content.items, IsTextBlock)
                  joined == JoinNl([i \in 1..Len(texts) |-> texts[i].text])
              IN  IF joined # <<>> THEN joined ELSE <<"(empty)">>
    ELSE JsonText

\* The switch over block.type of the regular message conversion: the parts
\* one block pushes.
ConvertBlock(block) ==
    CASE block.type = "null" -> <<>>
      [] block.type = "text" ->
            IF block.text # Undef /\ block.text # <<>>
            THEN <<TextPart(block.text)>> ELSE <<>>
      [] block.type = "thinking" -> <<>>
      [] block.type = "image" ->
            <<InlineDataPart(IF TruthyStr(block.media) THEN block.media ELSE <<"image/png">>,
                             IF TruthyStr(block.data) THEN block.data ELSE <<>>)>>
      [] block.type = "tool_use" ->
            <<FunctionCallPart(block.name,
                               IF TruthyStr(block.input) THEN block.input ELSE <<"{}">>,
                               block.id)>>
      [] OTHER ->
            LET txt == IF TruthyStr(block.text) THEN block.text
                       ELSE IF block.content.kind = "string" THEN block.content.str
                       ELSE IF block.content.kind = "null" THEN <<>>
                       ELSE JsonText
            IN  IF txt # <<>> THEN <<TextPart(txt)>> ELSE <<>>

\* "Sanitize: only keep valid parts".
IsValidPart(p) ==
    IF p.kind = "text" THEN Len(p.text) > 0
    ELSE p.kind \in {"functionCall", "functionResponse", "inlineData"}

\* The variant of SanitizedParts that adds no placeholder.
SanitizedPartsNoPlaceholder(parts) == SelectSeq(parts, IsValidPart)

\* The sanitize filter followed by the placeholder of an empty message.
SanitizedParts(parts) ==
    LET sanitizedParts == SelectSeq(parts, IsValidPart)
    IN  IF Len(sanitizedParts) = 0 THEN <<TextPart(Placeholder)>> ELSE sanitizedParts

ToolPart(tr) ==
    FunctionResponsePart(IF TruthyStr(tr.id) THEN tr.id ELSE <<"unknown">>,
                         tr.id, extractText(tr.content))

\* One iteration of "for (const msg of anthropicReq.messages)": the turns the
\* message pushes onto rawContents.
ConvertMessage(msg) ==
    IF msg.kind = "null" THEN <<>>
    ELSE
      LET role == IF msg.role = "assistant" THEN "model" ELSE "user"
          toolResults == IF msg.kind = "array"
                         THEN SelectSeq(msg.blocks, IsToolResult) ELSE <<>>
      IN  IF Len(toolResults) > 0
          THEN LET toolParts == [i \in 1..Len(toolResults) |-> ToolPart(toolResults[i])]
                   textBlocks == SelectSeq(msg.blocks, IsTruthyText)
               IN  <<Turn("user", toolParts)>> \o
                   (IF Len(textBlocks) > 0
                    THEN <<Turn("user", [i \in 1..Len(textBlocks) |->
                                            TextPart(textBlocks[i].text)])>>
                    ELSE <<>>)
          ELSE LET parts ==
                     IF msg.kind = "string"
                     THEN (IF msg.str # <<>> THEN <<TextPart(msg.str)>> ELSE <<>>)
                     ELSE IF msg.kind = "array"
                     THEN Flatten([i \in 1..Len(msg.blocks) |-> ConvertBlock(msg.blocks[i])])
                     ELSE <<>>
               IN  <<Turn(role, SanitizedParts(parts))>>

\* The whole message loop.
ConvertMessages(messages) ==
    Flatten([i \in 1..Len(messages) |-> ConvertMessage(messages[i])])

\* The variant of MergeStep that never merges.
MergeStepNever(acc, entry) == Append(acc, entry)

\* One iteration of the role-alternation loop: merge entry into the last
\* turn of acc when the roles are equal, else push it.
MergeStep(acc, entry) ==
    IF acc # <<>> /\ acc[Len(acc)].role = entry.role
    THEN [acc EXCEPT ![Len(acc)].parts = @ \o entry.parts]
    ELSE Append(acc, entry)

\* "Enforce role alternation: merge consecutive same-role messages".
RECURSIVE MergeFrom(_, _)
MergeFrom(acc, raw) ==
    IF raw = <<>> THEN acc ELSE MergeFrom(MergeStep(acc, Head(raw)), Tail(raw))

\* The variant of MergeRoles that starts from the first turn and then walks
\* every turn, the first included.
MergeRolesSeeded(raw) ==
    IF raw = <<>> THEN <<>> ELSE MergeFrom(<<Head(raw)>>, raw)

MergeRoles(raw) == MergeFrom(<<>>, raw)

----------------------------------------------------------------------------
(* Generation config.                                                      *)

DefaultMaxTokens == 16384
MinThinkingBudget == 1024
MaxThinkingBudget == 10240
ThinkingHeadroom == 1024

\* request.generationConfig; a field that is not set is Absent.
GenConfig(maxOut, hasThinking, budget, temperature) ==
    [maxOutputTokens |-> maxOut, hasThinkingConfig |-> hasThinking,
     thinkingBudget |-> budget, temperature |-> temperature]

NoConfig == GenConfig(Absent, FALSE, Absent, Absent)

\* Math.min(10240, Math.max(1024, Math.floor(rawMaxTokens * 0.25)))
dynamicBudget(rawMaxTokens) ==
    Min(MaxThinkingBudget, Max(MinThinkingBudget, rawMaxTokens \div 4))

\* The variant of thinkingMaxOutputTokens that keeps the client's max_tokens.
thinkingMaxOutputTokensRaw(rawMaxTokens, thinkingBudget) == rawMaxTokens

\* Math.max(rawMaxTokens, thinkingBudget + 1024)
thinkingMaxOutputTokens(rawMaxTokens, thinkingBudget) ==
    Max(rawMaxTokens, thinkingBudget + ThinkingHeadroom)

\* The variant of BuildGenerationConfig that ignores the client's max_tokens.
BuildGenerationConfigFixed(anthropicReq, model) ==
    IF isThinkingModel(model)
    THEN GenConfig(DefaultMaxTokens, TRUE, dynamicBudget(DefaultMaxTokens),
                   anthropicReq.temperature)
    ELSE GenConfig(DefaultMaxTokens, FALSE, Absent, anthropicReq.temperature)

\* The "Generation config" section of convertAnthropicToGoogle.
BuildGenerationConfig(anthropicReq, model) ==
    LET rawMaxTokens == IF TruthyNum(anthropicReq.max_tokens)
                        THEN anthropicReq.max_tokens ELSE DefaultMaxTokens
    IN  IF isThinkingModel(model)
        THEN LET clientBudget == anthropicReq.budget_tokens
                 thinkingBudget == IF TruthyNum(clientBudget) THEN clientBudget
                                   ELSE dynamicBudget(rawMaxTokens)
             IN  GenConfig(thinkingMaxOutputTokens(rawMaxTokens, thinkingBudget),
                           TRUE, thinkingBudget, anthropicReq.temperature)
        ELSE GenConfig(rawMaxTokens, FALSE, Absent, anthropicReq.temperature)

----------------------------------------------------------------------------
(* The requests the model draws from.                                      *)

Request(model, messages, max_tokens, budget_tokens, temperature) ==
    [model |-> model, messages |-> messages, max_tokens |-> max_tokens,
     budget_tokens |-> budget_tokens, temperature |-> temperature]

Roles == {"user", "assistant", "system"}

\* Every message whose block list holds at most n blocks.
MessagesUpTo(n) ==
    {NullMessage} \cup
    {StringMessage(r, s) : r \in Roles, s \in {<<>>, <<"hi">>}} \cup
    {OtherMessage(r) : r \in Roles} \cup
    {BlockMessage(r, bs) : r \in Roles, bs \in SeqsUpTo(Blocks, n)}

\* The messages of a conversation: one of each shape that decides how many
\* turns, and of which role, a message becomes.
TurnShapes ==
    { NullMessage,
      StringMessage("user", <<"hi">>), StringMessage("assistant", <<"ok">>),
      StringMessage("system", <<"sys">>), StringMessage("assistant", <<>>),
      BlockMessage("assistant", <<ThinkingBlock>>),
      BlockMessage("assistant", <<TextBlock(<<"hi">>), ToolUseBlock(<<"tu1">>, <<"f">>, <<"{x}">>)>>),
      BlockMessage("user", <<ToolResultBlock(<<"tu1">>, ContentStr(<<"out">>))>>),
      BlockMessage("user", <<ToolResultBlock(<<"tu1">>, ContentStr(<<"out">>)), TextBlock(<<"hi">>)>>),
      BlockMessage("assistant", <<ToolResultBlock(<<"tu1">>, ContentNull)>>) }

MaxTokensValues ==
    {Absent, 0, 0 - 1, 1, 100, 4095, 4096, 4097, 4100, 16384, 40959, 40960, 40964, 50000}
BudgetValues == {Absent, 0, 1, 1023, 1024, 4096, 16384, 20000, 100000}
TemperatureValues == {Absent, 0, 7}
ModelValues ==
    {Names.sonnet45, Names.opus45, Names.sonnet45thinking, Names.haiku35dated, Names.sonnet37, Names.opus3,
     Names.sonnetopus, Names.haiku4, Names.other, Names.constructor, Names.toString, Undef}

Requests ==
    \* conversations of up to MaxMsgs messages
    {Request(Names.opus45, ms, 4096, Absent, Absent) : ms \in SeqsUpTo(TurnShapes, MaxMsgs)} \cup
    \* one message with any list of up to MaxBlocks blocks
    {Request(Names.sonnet45, <<m>>, 4096, Absent, Absent) : m \in MessagesUpTo(MaxBlocks)} \cup
    \* every model, token limit, thinking budget and temperature
    {Request(m, <<StringMessage("user", <<"hi">>)>>, mt, b, t) :
        m \in ModelValues, mt \in MaxTokensValues, b \in BudgetValues,
        t \in TemperatureValues}

----------------------------------------------------------------------------
(* convertAnthropicToGoogle as a state machine.                            *)

\* const googleModel = mapModel(anthropicReq.model)
DoMapModel ==
    /\ cpc = "mapModel"
    /\ googleModel' = mapModel(req.model)
    /\ cpc' = IF mapModel(req.model) = ThrowsTypeError THEN "threw" ELSE "messages"
    /\ UNCHANGED <<req, rawContents, contents, generationConfig>>
    /\ UNCHANGED <<streamVars, raceVars, otherVars>>

\* The message loop.
DoConvertMessages ==
    /\ cpc = "messages"
    /\ rawContents' = ConvertMessages(req.messages)
    /\ cpc' = "merge"
    /\ UNCHANGED <<req, googleModel, contents, generationConfig>>
    /\ UNCHANGED <<streamVars, raceVars, otherVars>>

\* The role-alternation loop.
DoMergeRoles ==
    /\ cpc = "merge"
    /\ contents' = MergeRoles(rawContents)
    /\ cpc' = "config"
    /\ UNCHANGED <<req, googleModel, rawContents, generationConfig>>
    /\ UNCHANGED <<streamVars, raceVars, otherVars>>

\* The generation config.
\* isThinkingModel(googleModel) calls googleModel.includes, which throws a
\* TypeError when googleModel is no string.
DoGenerationConfig ==
    /\ cpc = "config"
    /\ generationConfig' = IF googleModel = InheritedValue THEN generationConfig
                           ELSE BuildGenerationConfig(req, googleModel)
    /\ cpc' = IF googleModel = InheritedValue THEN "threw" ELSE "tools"
    /\ UNCHANGED <<req, googleModel, rawContents, contents>>
    /\ UNCHANGED <<streamVars, raceVars, otherVars>>

----------------------------------------------------------------------------
(* Tool schemas: JSON values, and the three passes of the normalizer.      *)

\* A JSON value.  An object keeps its keys in insertion order (keys[i] has
\* the value vals[i]); an array keeps its elements in vals; a string keeps
\* its text in str; a boolean is the str <<"true">> or <<"false">>.
\* undefined reads as JNull.  Keys are strings (sequences of symbols).
JNull == [kind |-> "null", keys |-> <<>>, vals |-> <<>>, str |-> <<>>]
JStr(s) == [kind |-> "string", keys |-> <<>>, vals |-> <<>>, str |-> s]
JBool(b) == [kind |-> "boolean", keys |-> <<>>, vals |-> <<>>,
             str |-> IF b THEN <<"true">> ELSE <<"false">>]
JArr(elems) == [kind |-> "array", keys |-> <<>>, vals |-> elems, str |-> <<>>]
JObj(keys, vals) == [kind |-> "object", keys |-> keys, vals |-> vals, str |-> <<>>]
\* In place of a value: the evaluation threw a TypeError.
JThrow == [kind |-> "throw", keys |-> <<>>, vals |-> <<>>, str |-> <<>>]

Keys ==
    [ type |-> <<"type">>,
      description |-> <<"description">>,
      properties |-> <<"properties">>,
      required |-> <<"required">>,
      items |-> <<"items">>,
      enum |-> <<"enum">>,
      nullable |-> <<"nullable">>,
      anyOf |-> <<"anyOf">>,
      oneOf |-> <<"oneOf">>,
      schema |-> <<"$", "schema">>,
      defs |-> <<"$", "defs">>,
      additionalProperties |-> <<"additionalProperties">>,
      format |-> <<"format">>,
      default |-> <<"default">>,
      a |-> <<"a">>,
      b |-> <<"b">>,
      dollarB |-> <<"$", "b">>,
      x |-> <<"x">> ]

\* JavaScript truthiness of a JSON value.
Truthy(x) ==
    CASE x.kind = "null" -> FALSE
      [] x.kind = "string" -> x.str # <<>>
      [] x.kind = "boolean" -> x.str = <<"true">>
      [] OTHER -> TRUE

\* typeof x === "object" (null included)
TypeofObject(x) == x.kind \in {"null", "array", "object"}

\* An evaluation that threw, or a list of evaluations one of which threw.
IsThrow(x) == x.kind = "throw"
AnyThrow(xs) == \E i \in 1..Len(xs) : IsThrow(xs[i])

\* obj[key]: the value, JNull when the object has no such key.
HasKey(obj, key) == \E i \in 1..Len(obj.keys) : obj.keys[i] = key
GetKey(obj, key) ==
    IF HasKey(obj, key)
    THEN obj.vals[CHOOSE i \in 1..Len(obj.keys) : obj.keys[i] = key]
    ELSE JNull

\* obj[key] = value: an existing key keeps its place, a new key goes last.
SetKey(obj, key, value) ==
    IF HasKey(obj, key)
    THEN [obj EXCEPT !.vals = [i \in 1..Len(obj.keys) |->
                                 IF obj.keys[i] = key THEN value ELSE obj.vals[i]]]
    ELSE [obj EXCEPT !.keys = Append(@, key), !.vals = Append(@, value)]

\* The members of a set of indices, in increasing order.
RECURSIVE SortedIdx(_)
SortedIdx(S) ==
    IF S = {} THEN <<>>
    ELSE LET m == CHOOSE x \in S : \A y \in S : x <= y
         IN  <<m>> \o SortedIdx(S \ {m})

\* The entries of obj at the given indices, in the order of obj.
KeepEntries(obj, S) ==
    LET idx == SortedIdx(S)
    IN  JObj([j \in 1..Len(idx) |-> obj.keys[idx[j]]],
             [j \in 1..Len(idx) |-> obj.vals[idx[j]]])

\* The key Object.entries gives the element i of an array.
IndexKeys == <<<<"0">>, <<"1">>, <<"2">>, <<"3">>>>

\* Object.entries(x) / {...x} of an object or an array, as an object.
Entries(x) ==
    IF x.kind = "array"
    THEN JObj([i \in 1..Len(x.vals) |-> IndexKeys[i]], x.vals)
    ELSE JObj(x.keys, x.vals)

\* function stripDollarSchema(schema)
RECURSIVE stripDollarSchema(_)
stripDollarSchema(schema) ==
    IF ~Truthy(schema) \/ ~TypeofObject(schema) THEN schema
    ELSE IF schema.kind = "array"
    THEN JArr([i \in 1..Len(schema.vals) |-> stripDollarSchema(schema.vals[i])])
    ELSE LET kept == KeepEntries(schema, {i \in 1..Len(schema.keys) :
                                              ~StartsWith(schema.keys[i], <<"$">>)})
         IN  JObj(kept.keys,
                  [i \in 1..Len(kept.vals) |->
                      IF TypeofObject(kept.vals[i]) /\ kept.vals[i].kind # "null"
                      THEN stripDollarSchema(kept.vals[i]) ELSE kept.vals[i]])

\* const ALLOWED_SCHEMA_FIELDS
ALLOWED_SCHEMA_FIELDS ==
    {Keys.type, Keys.description, Keys.properties, Keys.required, Keys.items, Keys.enum, Keys.nullable}

\* { ...variant, ...(working.description ? { description } : {}) }
MergeVariant(variant, working) ==
    IF Truthy(GetKey(working, Keys.description))
    THEN SetKey(Entries(variant), Keys.description, GetKey(working, Keys.description))
    ELSE Entries(variant)

\* The variant of FlattenVariants that always takes the first variant.
FlattenVariantsFirst(schema) ==
    LET anyOf == GetKey(schema, Keys.anyOf)
        oneOf == GetKey(schema, Keys.oneOf)
        list == IF Truthy(anyOf) THEN anyOf ELSE oneOf
    IN  IF ~Truthy(anyOf) /\ ~Truthy(oneOf) THEN schema
        ELSE IF list.kind # "array" THEN JThrow
        ELSE LET variants == SelectSeq(list.vals,
                                 LAMBDA v : Truthy(v) /\ TypeofObject(v))
             IN  IF Len(variants) >= 1 THEN MergeVariant(variants[1], schema)
                 ELSE schema

\* "Flatten anyOf/oneOf": the object the allow-list filter then works on.
\* .filter of a value that is no array throws.
FlattenVariants(schema) ==
    LET anyOf == GetKey(schema, Keys.anyOf)
        oneOf == GetKey(schema, Keys.oneOf)
        list == IF Truthy(anyOf) THEN anyOf ELSE oneOf
    IN  IF ~Truthy(anyOf) /\ ~Truthy(oneOf) THEN schema
        ELSE IF list.kind # "array" THEN JThrow
        ELSE LET variants == SelectSeq(list.vals,
                                 LAMBDA v : Truthy(v) /\ TypeofObject(v))
                 specifics == SelectSeq(variants,
                                 LAMBDA v : \/ Truthy(GetKey(v, Keys.enum))
                                            \/ Truthy(GetKey(v, Keys.properties)))
             IN  IF Len(variants) = 1 THEN MergeVariant(variants[1], schema)
                 ELSE IF Len(variants) > 1
                 THEN (IF Len(specifics) > 0 THEN MergeVariant(specifics[1], schema)
                       ELSE MergeVariant(variants[1], schema))
                 ELSE schema

\* The entries of working that pass "if (!ALLOWED_SCHEMA_FIELDS.has(key))
\* continue".
AllowedEntries(working) ==
    KeepEntries(working, {i \in 1..Len(working.keys) :
                              working.keys[i] \in ALLOWED_SCHEMA_FIELDS})

\* function sanitizeSchema(schema).  Object.entries(null) throws.
RECURSIVE sanitizeSchema(_)
sanitizeSchema(schema) ==
    IF ~Truthy(schema) \/ ~TypeofObject(schema) THEN schema
    ELSE IF schema.kind = "array"
    THEN LET mapped == [i \in 1..Len(schema.vals) |-> sanitizeSchema(schema.vals[i])]
         IN  IF AnyThrow(mapped) THEN JThrow ELSE JArr(mapped)
    ELSE LET working == FlattenVariants(schema)
         IN  IF IsThrow(working) THEN JThrow
             ELSE
               LET kept == AllowedEntries(working)
                   cleanVals ==
                     [i \in 1..Len(kept.keys) |->
                        IF kept.keys[i] = Keys.properties /\ TypeofObject(kept.vals[i])
                        THEN (IF kept.vals[i].kind = "null" THEN JThrow
                              ELSE LET es == Entries(kept.vals[i])
                                       vs == [j \in 1..Len(es.vals) |->
                                                 sanitizeSchema(es.vals[j])]
                                   IN  IF AnyThrow(vs) THEN JThrow ELSE JObj(es.keys, vs))
                        ELSE IF kept.keys[i] = Keys.items THEN sanitizeSchema(kept.vals[i])
                        ELSE kept.vals[i]]
               IN  IF AnyThrow(cleanVals) THEN JThrow ELSE JObj(kept.keys, cleanVals)

\* The variant of DefaultType that infers "object" for every node.
DefaultTypeObject(s) ==
    IF Truthy(GetKey(s, Keys.type)) THEN s
    ELSE SetKey(s, Keys.type, JStr(<<"object">>))

\* "Default type if missing"
DefaultType(s) ==
    IF Truthy(GetKey(s, Keys.type)) THEN s
    ELSE IF Truthy(GetKey(s, Keys.properties)) THEN SetKey(s, Keys.type, JStr(<<"object">>))
    ELSE IF Truthy(GetKey(s, Keys.items)) THEN SetKey(s, Keys.type, JStr(<<"array">>))
    ELSE IF Truthy(GetKey(s, Keys.enum)) THEN SetKey(s, Keys.type, JStr(<<"string">>))
    ELSE SetKey(s, Keys.type, JStr(<<"object">>))

\* function ensureSchemaType(schema)
RECURSIVE ensureSchemaType(_)
ensureSchemaType(schema) ==
    IF ~Truthy(schema) \/ ~TypeofObject(schema) THEN schema
    ELSE IF schema.kind = "array"
    THEN JArr([i \in 1..Len(schema.vals) |-> ensureSchemaType(schema.vals[i])])
    ELSE LET s == DefaultType(schema)
             props == GetKey(s, Keys.properties)
             withProps ==
               IF Truthy(props) /\ TypeofObject(props)
               THEN LET es == Entries(props)
                    IN  SetKey(s, Keys.properties,
                               JObj(es.keys, [j \in 1..Len(es.vals) |->
                                                 ensureSchemaType(es.vals[j])]))
               ELSE s
         IN  IF Truthy(GetKey(withProps, Keys.items))
             THEN SetKey(withProps, Keys.items, ensureSchemaType(GetKey(withProps, Keys.items)))
             ELSE withProps

----------------------------------------------------------------------------
(* The tool schemas the model draws from.                                  *)

\* {key: value} objects of one, two and three entries.
Obj1(k1, v1) == JObj(<<k1>>, <<v1>>)
Obj2(k1, v1, k2, v2) == JObj(<<k1, k2>>, <<v1, v2>>)
Obj3(k1, v1, k2, v2, k3, v3) == JObj(<<k1, k2, k3>>, <<v1, v2, v3>>)

TypeName ==
    [ string |-> JStr(<<"string">>),
      object |-> JStr(<<"object">>),
      array |-> JStr(<<"array">>) ]

\* Schemas without a nested schema, and values that are no schema.
SchemaLeaves ==
    { JNull, JBool(TRUE),
      JObj(<<>>, <<>>),
      Obj1(Keys.type, TypeName.string),
      Obj2(Keys.type, JStr(<<>>), Keys.description, JStr(<<"d">>)),
      Obj1(Keys.type, JArr(<<>>)),
      Obj1(Keys.type, JArr(<<TypeName.string, JStr(<<"null">>)>>)),
      Obj3(Keys.schema, JStr(<<"uri">>), Keys.type, TypeName.object, Keys.additionalProperties, JBool(FALSE)),
      Obj1(Keys.enum, JArr(<<JStr(<<"a">>), JStr(<<"b">>)>>)),
      Obj3(Keys.type, TypeName.string, Keys.format, JStr(<<"uri">>), Keys.nullable, JBool(TRUE)),
      Obj1(Keys.properties, JNull) }

\* The second schema of a two-schema list.
SchemaSiblings ==
    { Obj1(Keys.type, JStr(<<"null">>)),
      Obj2(Keys.description, JStr(<<"e">>), Keys.enum, JArr(<<JStr(<<"a">>)>>)) }

\* The schemas that nest the schema s one level down.
Nest1(s) ==
    { Obj3(Keys.type, TypeName.object, Keys.properties, Obj1(Keys.a, s), Keys.required, JArr(<<JStr(Keys.a)>>)),
      Obj1(Keys.properties, Obj2(Keys.dollarB, s, Keys.a, s)),
      Obj2(Keys.type, TypeName.array, Keys.items, s),
      Obj1(Keys.items, JArr(<<s>>)),
      Obj3(Keys.description, JStr(<<"p">>), Keys.oneOf, JArr(<<s>>), Keys.default, s),
      Obj2(Keys.additionalProperties, s, Keys.defs, Obj1(Keys.a, s)) }

\* The schemas that nest s next to a sibling t.
Nest2(s, t) ==
    { Obj1(Keys.anyOf, JArr(<<t, s>>)),
      Obj1(Keys.properties, Obj2(Keys.a, s, Keys.b, t)) }

\* The schemas of the documented scenarios: {anyOf: [{type: "string"}]} and
\* {properties: {x: {type: "string"}}}.
ScenarioSchemas ==
    { Obj1(Keys.anyOf, JArr(<<Obj1(Keys.type, TypeName.string)>>)),
      Obj1(Keys.properties, Obj1(Keys.x, Obj1(Keys.type, TypeName.string))) }

\* Every schema of nesting depth at most d.
RECURSIVE SchemasUpTo(_)
SchemasUpTo(d) ==
    IF d = 0 THEN SchemaLeaves
    ELSE LET below == SchemasUpTo(d - 1)
         IN  SchemaLeaves
             \cup UNION {Nest1(s) : s \in below}
             \cup UNION {Nest2(s, t) : s \in below, t \in SchemaSiblings}

----------------------------------------------------------------------------
(* The normalizer as a state machine: the call                             *)
(* ensureSchemaType(sanitizeSchema(stripDollarSchema(tool.input_schema ||  *)
(* {}))) of convertAnthropicToGoogle, one pass per step.                   *)

\* stripDollarSchema(tool.input_schema || {})
DoStripDollarSchema ==
    /\ npc = "strip"
    /\ cleaned' = stripDollarSchema(IF Truthy(inputSchema) THEN inputSchema ELSE JObj(<<>>, <<>>))
    /\ npc' = "sanitize"
    /\ UNCHANGED inputSchema
    /\ UNCHANGED <<convVars, streamVars, raceVars, batchVars, handlerVars, laterVars>>

\* sanitizeSchema(...)
DoSanitizeSchema ==
    /\ npc = "sanitize"
    /\ cleaned' = sanitizeSchema(cleaned)
    /\ npc' = IF IsThrow(sanitizeSchema(cleaned)) THEN "threw" ELSE "ensure"
    /\ UNCHANGED inputSchema
    /\ UNCHANGED <<convVars, streamVars, raceVars, batchVars, handlerVars, laterVars>>

\* ensureSchemaType(...)
DoEnsureSchemaType ==
    /\ npc = "ensure"
    /\ cleaned' = ensureSchemaType(cleaned)
    /\ npc' = "done"
    /\ UNCHANGED inputSchema
    /\ UNCHANGED <<convVars, streamVars, raceVars, batchVars, handlerVars, laterVars>>

SchemaNext ==
    \/ DoStripDollarSchema
    \/ DoSanitizeSchema
    \/ DoEnsureSchemaType

----------------------------------------------------------------------------
(* The tools of a request and the function declarations made of them.      *)

\* One entry of anthropicReq.tools (isNull: the entry is null); a field the
\* tool does not carry is Undef (input_schema: JNull).
Tool(name, description, input_schema) ==
    [isNull |-> FALSE, name |-> name, description |-> description,
     input_schema |-> input_schema]
NullTool == [isNull |-> TRUE, name |-> Undef, description |-> Undef, input_schema |-> JNull]

\* anthropicReq.tools: absent, or a list.
ToolList(list) == [present |-> TRUE, list |-> list]
NoTools == [present |-> FALSE, list |-> <<>>]

\* The tools the model draws from.
Tools ==
    { Tool(<<"f">>, <<"does f">>, Obj1(Keys.properties, Obj1(Keys.x, Obj1(Keys.type, TypeName.string)))),
      Tool(<<"g">>, Undef, JNull),
      Tool(<<"h">>, <<>>, Obj2(Keys.schema, JStr(<<"uri">>), Keys.anyOf, JArr(<<Obj1(Keys.type, TypeName.string)>>))),
      Tool(<<"k">>, <<"does k">>, Obj1(Keys.properties, JNull)),
      NullTool }

ToolLists == {NoTools} \cup {ToolList(list) : list \in SeqsUpTo(Tools, MaxTools)}

\* One entry of functionDeclarations: field is the name of the property
\* that holds the schema.
Declaration(name, description, field, schema) ==
    [name |-> name, description |-> description, field |-> field, schema |-> schema]

\* ensureSchemaType(sanitizeSchema(stripDollarSchema(tool.input_schema || {})))
CleanedSchema(schema) ==
    LET sanitized == sanitizeSchema(stripDollarSchema(
                        IF Truthy(schema) THEN schema ELSE JObj(<<>>, <<>>)))
    IN  IF IsThrow(sanitized) THEN JThrow ELSE ensureSchemaType(sanitized)

\* The callback of anthropicReq.tools.map.
BuildDeclaration(tool, isClaude) ==
    Declaration(tool.name,
                IF TruthyStr(tool.description) THEN tool.description ELSE <<>>,
                IF isClaude THEN "parameters" ELSE "parametersJsonSchema",
                CleanedSchema(tool.input_schema))

\* if (anthropicReq.tools && anthropicReq.tools.length > 0)
HasTools(t) == t.present /\ Len(t.list) > 0

\* tool.input_schema of a null entry throws, and so does the normalizer on
\* a schema it cannot walk.
ToolsThrow(t) ==
    HasTools(t) /\ \E i \in 1..Len(t.list) :
        t.list[i].isNull \/ IsThrow(CleanedSchema(t.list[i].input_schema))

\* request.tools[0].functionDeclarations
BuildTools(t, model) ==
    IF HasTools(t)
    THEN LET isClaude == StartsWith(model, Words.claude \o <<"-">>)
         IN  [i \in 1..Len(t.list) |-> BuildDeclaration(t.list[i], isClaude)]
    ELSE <<>>

\* "Tools": the function declarations; the function then returns the body.
DoTools ==
    /\ cpc = "tools"
    /\ declarations' = IF ToolsThrow(reqTools) THEN declarations
                       ELSE BuildTools(reqTools, googleModel)
    /\ cpc' = IF ToolsThrow(reqTools) THEN "threw" ELSE "done"
    /\ UNCHANGED <<req, googleModel, rawContents, contents, generationConfig, reqTools>>
    /\ UNCHANGED <<streamVars, raceVars, schemaVars, batchVars, handlerVars,
                   chunkVars, tokenVars, connVars>>

ConvNext ==
    \/ DoMapModel
    \/ DoConvertMessages
    \/ DoMergeRoles
    \/ DoGenerationConfig
    \/ DoTools

----------------------------------------------------------------------------
(* The backend stream: parts, envelopes and data lines.                    *)

\* part.functionCall: absent, or {name, args} (args as its JSON text, Undef
\* when the call carries none).
NoCall == [present |-> FALSE, name |-> Undef, args |-> Undef]
Call(name, args) == [present |-> TRUE, name |-> name, args |-> args]

\* One entry of candidate.content.parts.  isNull: the entry is null.
GPart(text, thought, thoughtSignature, functionCall) ==
    [isNull |-> FALSE, text |-> text, thought |-> thought,
     thoughtSignature |-> thoughtSignature, functionCall |-> functionCall]

NullPart ==
    [isNull |-> TRUE, text |-> Undef, thought |-> FALSE,
     thoughtSignature |-> Undef, functionCall |-> NoCall]

\* The parts the model draws from.
GParts ==
    { GPart(<<"t">>, FALSE, Undef, NoCall),                 \* visible text
      GPart(<<>>, FALSE, Undef, NoCall),                    \* visible empty text
      GPart(<<"r">>, TRUE, Undef, NoCall),                  \* internal reasoning
      GPart(Undef, FALSE, <<"sig">>, NoCall),               \* signature only
      GPart(<<"t">>, FALSE, <<"sig">>, NoCall),             \* text with a signature
      GPart(Undef, FALSE, Undef, Call(<<"f">>, <<"{a}">>)), \* function call
      GPart(Undef, FALSE, Undef, Call(<<"g">>, Undef)),     \* call without args
      GPart(Undef, FALSE, <<"sig">>, Call(<<"f">>, <<"{a}">>)), \* call with a signature
      GPart(<<"t">>, FALSE, Undef, Call(<<"f">>, <<"{a}">>)),   \* text and call
      GPart(<<"r">>, TRUE, Undef, Call(<<"f">>, <<"{a}">>)),    \* reasoning and call
      NullPart }

\* resp.usageMetadata: absent, or the three counts (Absent: not reported).
NoUsage == [present |-> FALSE, prompt |-> Absent, candidates |-> Absent, thoughts |-> Absent]
Usage(p, c, t) == [present |-> TRUE, prompt |-> p, candidates |-> c, thoughts |-> t]

Usages == {NoUsage, Usage(10, 5, 2), Usage(12, 7, Absent)}

\* One line of the upstream body, as the loop classifies it:
\*   "other"      does not start with "data:"
\*   "emptyData"  "data:" with nothing after it
\*   "malformed"  the payload is not JSON
\*   "nullChunk"  the payload is the JSON value null
\*   "noResponse" an object without .response
\*   "response"   {response: {candidates?, usageMetadata?}}; hasParts says
\*                whether candidates[0].content.parts is there.
Line(kind, hasParts, parts, usage) ==
    [kind |-> kind, hasParts |-> hasParts, parts |-> parts, usage |-> usage]

PlainLines ==
    {Line(k, FALSE, <<>>, NoUsage) :
        k \in {"other", "emptyData", "malformed", "nullChunk", "noResponse"}}

\* The lines that carry at most n parts.
LinesUpTo(n) ==
    PlainLines \cup
    {Line("response", FALSE, <<>>, u) : u \in Usages} \cup
    {Line("response", TRUE, ps, u) :
        ps \in SeqsUpTo(GParts, n), u \in {NoUsage, Usage(10, 5, 2)}}

----------------------------------------------------------------------------
(* The client stream: the events res.write writes.                         *)

Event(type, index, kind, name, data, tokens) ==
    [type |-> type, index |-> index, kind |-> kind, name |-> name,
     data |-> data, tokens |-> tokens]

\* message_start: content [] and usage {input_tokens: 0, output_tokens: 0}
MessageStart == Event("message_start", Absent, "message", Undef, <<>>, 0)
\* content_block_start of a text block: text ""
TextBlockStart(i) == Event("content_block_start", i, "text", Undef, <<>>, Absent)
\* content_block_start of a tool_use block: input {}
ToolBlockStart(i, name) == Event("content_block_start", i, "tool_use", name, <<>>, Absent)
TextDelta(i, text) == Event("content_block_delta", i, "text_delta", Undef, text, Absent)
InputJsonDelta(i, json) == Event("content_block_delta", i, "input_json_delta", Undef, json, Absent)
BlockStop(i) == Event("content_block_stop", i, "", Undef, <<>>, Absent)
MessageDelta(stopReason, tokens) == Event("message_delta", Absent, stopReason, Undef, <<>>, tokens)
MessageStop == Event("message_stop", Absent, "", Undef, <<>>, Absent)

\* The translator's state while it runs: the locals of
\* streamGoogleToAnthropic, what it has written, and whether it threw.
StreamState(ci, st, inTok, outTok, evs, calls, threw) ==
    [contentIndex |-> ci, started |-> st, inputTokens |-> inTok,
     outputTokens |-> outTok, events |-> evs, callsSeen |-> calls, threw |-> threw]

\* JSON.stringify(part.functionCall.args || {})
ArgsJson(call) == IF TruthyStr(call.args) THEN call.args ELSE <<"{}">>

\* if (part.thoughtSignature && !part.text) continue;
SkipsPart(part) == TruthyStr(part.thoughtSignature) /\ ~TruthyStr(part.text)

\* The variant of IsThinking that takes no part for internal reasoning.
IsThinkingNever(part) == FALSE

\* const isThinking = part.thought === true;
IsThinking(part) == part.thought

\* The text branch of the per-part loop body.
EmitText(s, part) ==
    LET open == IF s.started THEN <<>> ELSE <<TextBlockStart(s.contentIndex)>>
    IN  [s EXCEPT !.started = TRUE,
                  !.events = @ \o open \o <<TextDelta(s.contentIndex, part.text)>>]

\* The variant of EmitCall that leaves an open text block open.
EmitCallNoClose(s, part) ==
    [s EXCEPT !.contentIndex = @ + 1,
              !.events = @ \o <<ToolBlockStart(s.contentIndex, part.functionCall.name),
                                InputJsonDelta(s.contentIndex, ArgsJson(part.functionCall)),
                                BlockStop(s.contentIndex)>>]

\* The function-call branch of the per-part loop body.
EmitCall(s, part) ==
    LET close == IF s.started THEN <<BlockStop(s.contentIndex)>> ELSE <<>>
        index == IF s.started THEN s.contentIndex + 1 ELSE s.contentIndex
    IN  [s EXCEPT !.contentIndex = index + 1,
                  !.started = FALSE,
                  !.events = @ \o close \o
                             <<ToolBlockStart(index, part.functionCall.name),
                               InputJsonDelta(index, ArgsJson(part.functionCall)),
                               BlockStop(index)>>]

\* One iteration of "for (const part of candidate.content.parts)".
\* Reading a field of a null part throws.
ProcessPart(s, part) ==
    IF part.isNull THEN [s EXCEPT !.threw = TRUE]
    ELSE
      LET seen == [s EXCEPT !.callsSeen = @ + (IF part.functionCall.present THEN 1 ELSE 0)]
      IN  IF SkipsPart(part) THEN seen
          ELSE IF part.text # Undef /\ IsThinking(part) THEN seen
          ELSE LET afterText == IF part.text # Undef THEN EmitText(seen, part) ELSE seen
               IN  IF part.functionCall.present THEN EmitCall(afterText, part)
                   ELSE afterText

RECURSIVE ProcessParts(_, _)
ProcessParts(s, parts) ==
    IF parts = <<>> \/ s.threw THEN s
    ELSE ProcessParts(ProcessPart(s, Head(parts)), Tail(parts))

\* The variant of ApplyUsage that adds the counts to the running counters.
ApplyUsageAccumulating(s, usage) ==
    IF ~usage.present THEN s
    ELSE [s EXCEPT
            !.inputTokens = @ + (IF TruthyNum(usage.prompt) THEN usage.prompt ELSE 0),
            !.outputTokens = @ + (IF TruthyNum(usage.candidates) THEN usage.candidates ELSE 0)
                               + (IF TruthyNum(usage.thoughts) THEN usage.thoughts ELSE 0)]

\* if (resp.usageMetadata) { inputTokens = ...; outputTokens = ...; }
ApplyUsage(s, usage) ==
    IF ~usage.present THEN s
    ELSE [s EXCEPT
            !.inputTokens = IF TruthyNum(usage.prompt) THEN usage.prompt ELSE 0,
            !.outputTokens = (IF TruthyNum(usage.candidates) THEN usage.candidates ELSE 0)
                           + (IF TruthyNum(usage.thoughts) THEN usage.thoughts ELSE 0)]

\* One iteration of "for (const line of lines)".
ProcessLine(s, line) ==
    CASE line.kind \in {"other", "emptyData", "malformed", "noResponse"} -> s
      [] line.kind = "nullChunk" -> [s EXCEPT !.threw = TRUE]
      [] OTHER ->
            LET afterParts == IF line.hasParts THEN ProcessParts(s, line.parts) ELSE s
            IN  IF afterParts.threw THEN afterParts
                ELSE ApplyUsage(afterParts, line.usage)

\* const hasToolUse = contentIndex > (started ? 1 : 0);
hasToolUse(ci, st) == ci > (IF st THEN 1 ELSE 0)

\* The variant of ClosingEvents that leaves an open text block open.
ClosingEventsNoStop(s) ==
    <<MessageDelta(IF hasToolUse(s.contentIndex, s.started) THEN "tool_use" ELSE "end_turn",
                   s.outputTokens),
      MessageStop>>

\* What follows the read loop: "Close last block", message_delta, message_stop.
ClosingEvents(s) ==
    (IF s.started THEN <<BlockStop(s.contentIndex)>> ELSE <<>>) \o
    <<MessageDelta(IF hasToolUse(s.contentIndex, s.started) THEN "tool_use" ELSE "end_turn",
                   s.outputTokens),
      MessageStop>>

----------------------------------------------------------------------------
(* streamGoogleToAnthropic as a state machine.  One action is the code     *)
(* between two awaits: an iteration of the read loop is one action, and    *)
(* the closing sequence belongs to the read that ends the loop.  Each read *)
(* value ends at a line boundary and holds one line.                       *)

Current == StreamState(contentIndex, started, inputTokens, outputTokens,
                       events, callsSeen, FALSE)

\* The locals and the client stream after state s; with close, the closing
\* sequence and res.end() follow; err: the loop was left through the catch.
Becomes(s, close, err) ==
    /\ contentIndex' = s.contentIndex
    /\ started' = s.started
    /\ inputTokens' = s.inputTokens
    /\ outputTokens' = s.outputTokens
    /\ callsSeen' = s.callsSeen
    /\ events' = IF close THEN s.events \o ClosingEvents(s) ELSE s.events
    /\ ended' = close
    /\ streamError' = err
    /\ spc' = IF close THEN "done" ELSE "reading"

\* The call up to the first await: getReader, then message_start is written.
StreamStart ==
    /\ spc = "start"
    /\ events' = Append(events, MessageStart)
    /\ spc' = "reading"
    /\ UNCHANGED <<contentIndex, started, inputTokens, outputTokens, ended,
                   reads, partsRead, callsSeen, streamError,
                   partsSeen, lastUsage, lastRead>>
    /\ UNCHANGED <<convVars, raceVars, otherVars>>

\* reader.read() resolves with a value holding the line; the line is
\* translated.  A throw inside the loop is caught and the stream is closed.
ReadValue ==
    /\ spc = "reading"
    /\ reads < MaxReads
    /\ \E line \in LinesUpTo(MaxParts - partsRead) :
          LET s == ProcessLine(Current, line)
          IN  /\ Becomes(s, s.threw, s.threw)
              /\ partsRead' = partsRead + Len(line.parts)
              /\ partsSeen' = partsSeen \o line.parts
              /\ lastUsage' = IF line.usage.present THEN line.usage ELSE lastUsage
    /\ lastRead' = "line"
    /\ reads' = reads + 1
    /\ UNCHANGED <<convVars, raceVars, otherVars>>

\* reader.read() resolves with done: the loop ends and the stream is closed.
ReadDone ==
    /\ spc = "reading"
    /\ Becomes(Current, TRUE, FALSE)
    /\ reads' = reads + 1
    /\ lastRead' = "done"
    /\ UNCHANGED <<partsRead, partsSeen, lastUsage>>
    /\ UNCHANGED <<convVars, raceVars, otherVars>>

\* reader.read() rejects: the catch logs, and the stream is closed.
ReadFail ==
    /\ spc = "reading"
    /\ Becomes(Current, TRUE, TRUE)
    /\ reads' = reads + 1
    /\ lastRead' = "failed"
    /\ UNCHANGED <<partsRead, partsSeen, lastUsage>>
    /\ UNCHANGED <<convVars, raceVars, otherVars>>

StreamNext ==
    \/ StreamStart
    \/ ReadValue
    \/ ReadDone
    \/ ReadFail

----------------------------------------------------------------------------
(* The read loop over the bytes of the upstream body: a read delivers any  *)
(* non-empty run of the bytes that are left, wherever the lines end.       *)

\* A symbol of the body: the line feed, or one half of the text of a data
\* line ("data: {...}" cut inside the JSON payload).
Sym(line, half) == [line |-> line, half |-> half]
LF == Sym(0, 0)

\* The data lines the body is made of.
DataLines ==
    << Line("response", TRUE, <<GPart(<<"t">>, FALSE, Undef, NoCall)>>, NoUsage),
       Line("response", TRUE, <<GPart(Undef, FALSE, Undef, Call(<<"f">>, <<"{a}">>))>>,
            Usage(10, 5, 2)),
       Line("nullChunk", FALSE, <<>>, NoUsage) >>

\* The text of data line k followed by a line feed; 0: an empty line.
TextOf(k) == IF k = 0 THEN <<LF>> ELSE <<Sym(k, 1), Sym(k, 2), LF>>

\* The bodies: up to MaxBodyLines lines, then possibly text that no line
\* feed ends.
Upstreams ==
    {Flatten([i \in 1..Len(ks) |-> TextOf(ks[i])]) \o trail :
        ks \in SeqsUpTo(0..Len(DataLines), MaxBodyLines),
        trail \in {<<>>, <<Sym(1, 1)>>, <<Sym(1, 1), Sym(1, 2)>>}}

\* buffer.split("\n")
RECURSIVE SplitLf(_)
SplitLf(text) ==
    IF \A i \in 1..Len(text) : text[i] # LF THEN <<text>>
    ELSE LET i == CHOOSE j \in 1..Len(text) :
                     text[j] = LF /\ \A h \in 1..(j - 1) : text[h] # LF
         IN  <<SubSeq(text, 1, i - 1)>> \o SplitLf(SubSeq(text, i + 1, Len(text)))

\* How the loop classifies the text of a line: startsWith("data:"), then
\* JSON.parse of the payload.  Only the two halves of one data line, in
\* order, are a payload that parses.
ParseLine(text) ==
    IF text = <<>> THEN Line("other", FALSE, <<>>, NoUsage)
    ELSE IF Len(text) = 2 /\ text[1].half = 1 /\ text[2].half = 2
            /\ text[1].line = text[2].line
    THEN DataLines[text[1].line]
    ELSE IF text[1].half = 1 THEN Line("malformed", FALSE, <<>>, NoUsage)
    ELSE Line("other", FALSE, <<>>, NoUsage)

\* "for (const line of lines)", left at the first throw.
RECURSIVE ProcessLines(_, _)
ProcessLines(s, lines) ==
    IF lines = <<>> \/ s.threw THEN s
    ELSE ProcessLines(ProcessLine(s, ParseLine(Head(lines))), Tail(lines))

\* The variant of CarryOver that carries nothing to the next read.
CarryOverNone(lines) == <<>>

\* buffer = lines.pop() || ""
CarryOver(lines) == lines[Len(lines)]

\* reader.read() resolves with a value: the next bytes of the body, at
\* least one and at most all that are left.
ReadChunk ==
    /\ spc = "reading"
    /\ delivered < Len(upstream)
    /\ \E n \in 1..(Len(upstream) - delivered) :
          LET value == SubSeq(upstream, delivered + 1, delivered + n)
              lines == SplitLf(buffer \o value)
              s == ProcessLines(Current, SubSeq(lines, 1, Len(lines) - 1))
          IN  /\ Becomes(s, s.threw, s.threw)
              /\ buffer' = CarryOver(lines)
              /\ delivered' = delivered + n
    /\ reads' = reads + 1
    /\ UNCHANGED <<upstream, partsRead, partsSeen, lastUsage, lastRead>>
    /\ UNCHANGED <<convVars, raceVars, schemaVars, batchVars, handlerVars,
                   tokenVars, connVars, toolVars>>

\* reader.read() resolves with done once the whole body was delivered.
ReadEnd ==
    /\ delivered = Len(upstream)
    /\ ReadDone

ChunkNext ==
    \/ StreamStart
    \/ ReadChunk
    \/ ReadEnd

----------------------------------------------------------------------------
(* convertGoogleSSEToAnthropicStream: the batch translator.                *)

\* A line of the body handed to the batch translator: a Line, and the
\* finishReason of its candidate (Undef when there is none).
BatchLine(line, finishReason) ==
    [kind |-> line.kind, hasParts |-> line.hasParts, parts |-> line.parts,
     usage |-> line.usage, finishReason |-> finishReason]

FinishReasons == {Undef, <<"STOP">>, <<"MAX_TOKENS">>}

\* The lines a body of several lines is made of.
BodyLines ==
    {BatchLine(l, Undef) : l \in PlainLines} \cup
    {BatchLine(Line("response", FALSE, <<>>, u), Undef) : u \in Usages} \cup
    {BatchLine(Line("response", TRUE, <<p>>, Usage(10, 5, 2)), <<"STOP">>) :
        p \in {GPart(<<"t">>, FALSE, Undef, NoCall),
               GPart(<<"r">>, TRUE, Undef, NoCall),
               GPart(Undef, FALSE, Undef, Call(<<"f">>, <<"{a}">>))}}

\* The bodies the model draws from: a single line that carries up to
\* MaxParts parts, or up to MaxLines lines.
Bodies ==
    {<<BatchLine(Line("response", TRUE, ps, NoUsage), fr)>> :
        ps \in SeqsUpTo(GParts, MaxParts), fr \in FinishReasons} \cup
    SeqsUpTo(BodyLines, MaxLines)

\* A block of the content of the batch response.  The id of a tool_use
\* block (time and random digits) is left out.
ContentBlock(type, text, name, input) ==
    [type |-> type, text |-> text, name |-> name, input |-> input]
TextContent(text) == ContentBlock("text", text, Undef, Undef)
ToolUseContent(name, input) == ContentBlock("tool_use", Undef, name, input)

\* The returned message (type "none": nothing was returned).
AnthropicResp(type, blocks, stop, inTok, outTok) ==
    [type |-> type, content |-> blocks, stop_reason |-> stop,
     input_tokens |-> inTok, output_tokens |-> outTok]
NoAnthropicResp == AnthropicResp("none", <<>>, "", 0, 0)

\* The first loop: the lines that start with "data:", have a payload and
\* parse as JSON become events; every other line is dropped.
IsEventLine(l) == l.kind \in {"nullChunk", "noResponse", "response"}
ParseEvents(lines) == SelectSeq(lines, IsEventLine)

\* The locals of the second loop, and whether it threw.
BatchState(blocks, stop, inTok, outTok, threw) ==
    [content |-> blocks, stopReason |-> stop, inputTokens |-> inTok,
     outputTokens |-> outTok, threw |-> threw]

IsTextContent(b) == b.type = "text"
IsToolUseContent(b) == b.type = "tool_use"

\* const existing = content.find(b => b.type === "text");
\* if (existing) existing.text += text; else content.push({type: "text", text})
AddText(blocks, text) ==
    IF \E i \in 1..Len(blocks) : IsTextContent(blocks[i])
    THEN LET i == CHOOSE j \in 1..Len(blocks) :
                     /\ IsTextContent(blocks[j])
                     /\ \A k \in 1..(j - 1) : ~IsTextContent(blocks[k])
         IN  [blocks EXCEPT ![i].text = @ \o text]
    ELSE Append(blocks, TextContent(text))

\* if (part.text !== undefined && !part.thoughtSignature)
BatchTakesText(part) == part.text # Undef /\ ~TruthyStr(part.thoughtSignature)

\* One iteration of "for (const part of candidate.content.parts)".
\* Reading a field of a null part throws.
BatchPart(s, part) ==
    IF part.isNull THEN [s EXCEPT !.threw = TRUE]
    ELSE LET afterText == IF BatchTakesText(part)
                          THEN [s EXCEPT !.content = AddText(@, part.text)]
                          ELSE s
         IN  IF part.functionCall.present
             THEN [afterText EXCEPT !.content =
                      Append(@, ToolUseContent(part.functionCall.name,
                                               ArgsJson(part.functionCall)))]
             ELSE afterText

RECURSIVE BatchParts(_, _)
BatchParts(s, parts) ==
    IF parts = <<>> \/ s.threw THEN s
    ELSE BatchParts(BatchPart(s, Head(parts)), Tail(parts))

\* if (resp.usageMetadata) { inputTokens = ...; outputTokens = ...; }
BatchUsage(s, usage) ==
    IF ~usage.present THEN s
    ELSE [s EXCEPT
            !.inputTokens = IF TruthyNum(usage.prompt) THEN usage.prompt ELSE 0,
            !.outputTokens = (IF TruthyNum(usage.candidates) THEN usage.candidates ELSE 0)
                           + (IF TruthyNum(usage.thoughts) THEN usage.thoughts ELSE 0)]

\* One iteration of "for (const event of events)".  event.response of a
\* null event throws.
BatchEvent(s, event) ==
    CASE event.kind = "nullChunk" -> [s EXCEPT !.threw = TRUE]
      [] event.kind = "noResponse" -> s
      [] OTHER ->
            LET afterParts == IF event.hasParts THEN BatchParts(s, event.parts) ELSE s
                afterFinish == IF event.hasParts /\ event.finishReason = <<"STOP">>
                               THEN [afterParts EXCEPT !.stopReason = "end_turn"]
                               ELSE afterParts
            IN  IF afterParts.threw THEN afterParts
                ELSE BatchUsage(afterFinish, event.usage)

\* The variant of FinalStopReason that keeps the stop reason of the loop.
FinalStopReasonKept(blocks, stop) == stop

\* if (content.some(b => b.type === "tool_use")) stopReason = "tool_use";
FinalStopReason(blocks, stop) ==
    IF \E i \in 1..Len(blocks) : IsToolUseContent(blocks[i]) THEN "tool_use" ELSE stop

\* if (content.length === 0) content.push({ type: "text", text: "" });
FinalContent(blocks) == IF Len(blocks) = 0 THEN <<TextContent(<<>>)>> ELSE blocks

\* The state of the locals as a BatchState.
BatchCurrent ==
    BatchState(batchContent, batchStopReason, batchInputTokens, batchOutputTokens, FALSE)

\* The first loop: the body is split into lines and the lines are parsed.
BatchParse ==
    /\ bpc = "parse"
    /\ batchEvents' = ParseEvents(googleSSE)
    /\ eventIndex' = 1
    /\ bpc' = "events"
    /\ UNCHANGED <<googleSSE, batchContent, batchStopReason, batchInputTokens,
                   batchOutputTokens, anthropicResp>>
    /\ UNCHANGED <<convVars, streamVars, raceVars, schemaVars, handlerVars, laterVars>>

\* One iteration of the second loop.  A throw leaves the function.
BatchNextEvent ==
    /\ bpc = "events"
    /\ eventIndex <= Len(batchEvents)
    /\ LET s == BatchEvent(BatchCurrent, batchEvents[eventIndex])
       IN  /\ batchContent' = s.content
           /\ batchStopReason' = s.stopReason
           /\ batchInputTokens' = s.inputTokens
           /\ batchOutputTokens' = s.outputTokens
           /\ bpc' = IF s.threw THEN "threw" ELSE "events"
    /\ eventIndex' = eventIndex + 1
    /\ UNCHANGED <<googleSSE, batchEvents, anthropicResp>>
    /\ UNCHANGED <<convVars, streamVars, raceVars, schemaVars, handlerVars, laterVars>>

\* After the second loop: the stop reason, the empty text block, the return.
BatchReturn ==
    /\ bpc = "events"
    /\ eventIndex > Len(batchEvents)
    /\ batchStopReason' = FinalStopReason(batchContent, batchStopReason)
    /\ batchContent' = FinalContent(batchContent)
    /\ anthropicResp' = AnthropicResp("message", FinalContent(batchContent),
                                      FinalStopReason(batchContent, batchStopReason),
                                      batchInputTokens, batchOutputTokens)
    /\ bpc' = "done"
    /\ UNCHANGED <<googleSSE, batchEvents, eventIndex, batchInputTokens,
                   batchOutputTokens>>
    /\ UNCHANGED <<convVars, streamVars, raceVars, schemaVars, handlerVars, laterVars>>

BatchNext ==
    \/ BatchParse
    \/ BatchNextEvent
    \/ BatchReturn

\* reader.read() resolves with the next line of the body that the batch
\* translator is given; the line is translated.
ReadBodyLine ==
    /\ spc = "reading"
    /\ reads < Len(googleSSE)
    /\ LET line == googleSSE[reads + 1]
           s == ProcessLine(Current, line)
       IN  /\ Becomes(s, s.threw, s.threw)
           /\ partsRead' = partsRead + Len(line.parts)
           /\ partsSeen' = partsSeen \o line.parts
           /\ lastUsage' = IF line.usage.present THEN line.usage ELSE lastUsage
    /\ lastRead' = "line"
    /\ reads' = reads + 1
    /\ UNCHANGED <<convVars, raceVars, otherVars>>

\* reader.read() resolves with done after the last line of that body.
ReadBodyDone ==
    /\ reads = Len(googleSSE)
    /\ ReadDone

\* Both translators, on the same body.
AgreeNext ==
    \/ StreamStart
    \/ ReadBodyLine
    \/ ReadBodyDone
    \/ BatchParse
    \/ BatchNextEvent
    \/ BatchReturn

\* Either translator, on the body of one upstream response.
TranslateNext ==
    \/ StreamStart
    \/ ReadValue
    \/ ReadDone
    \/ ReadFail
    \/ BatchParse
    \/ BatchNextEvent
    \/ BatchReturn

----------------------------------------------------------------------------
(* The request handler: the endpoint race and its failure classification.  *)

\* const ENDPOINTS = [PROD_EP, SANDBOX_EP]
ENDPOINTS == <<"PROD_EP", "SANDBOX_EP">>

MaxExcerpt == 300

\* One entry of the Promise.allSettled result, or Pending before fetchOne
\* settles.  fulfilled: the response r (r.ok).  rejected: the thrown
\* {status, errText, ep}, or a network error, which has neither status nor
\* errText (status Absent, errText Undef).
Outcome(state, status, errText) == [state |-> state, status |-> status, errText |-> errText]
Pending == Outcome("pending", Absent, Undef)
NothingSent == <<"<nothing>">>

HttpErrors == {400, 401, 429, 500, 503}

\* An error body one character longer than the excerpt the handler forwards.
LongErrText == [i \in 1..(MaxExcerpt + 1) |-> "x"]

Outcomes ==
    {Outcome("fulfilled", 200, Undef)} \cup
    {Outcome("rejected", st, t) :
        st \in HttpErrors, t \in {<<>>, <<"quota exceeded">>, LongErrText}} \cup
    {Outcome("rejected", Absent, Undef)}

\* What the handler resolved to: the status and error envelope written to
\* the client (type "stream" / "message": the 200 response translated from
\* the chosen upstream response), the index of the endpoint whose outcome
\* was used, and that outcome.  envelope is the shape of the JSON body:
\*   "typed"  {type: "error", error: {type, message}}
\*   "bare"   {error: message}
\*   "none"   no error body.
Response(status, envelope, type, message, from, outcome) ==
    [status |-> status, envelope |-> envelope, type |-> type, message |-> message,
     from |-> from, outcome |-> outcome]
NoResponse == Response(Absent, "none", "none", <<>>, 0, Pending)

\* The variant of allSettled that is satisfied by the first settlement.
anySettled(results) == \E i \in DOMAIN results : results[i] # Pending

\* Promise.allSettled: every fetchOne has settled.
allSettled(results) == \A i \in DOMAIN results : results[i] # Pending

IsFulfilled(r) == r.state = "fulfilled"

\* results.find(r => r.status === "fulfilled"): the index of the first
\* fulfilled entry, 0 when there is none.
FindFulfilled(results) ==
    IF \E i \in DOMAIN results : IsFulfilled(results[i])
    THEN CHOOSE i \in DOMAIN results :
            /\ IsFulfilled(results[i])
            /\ \A j \in DOMAIN results : IsFulfilled(results[j]) => i <= j
    ELSE 0

\* The variant of IsOverloadedStatus that knows 429 only.
IsRateLimitStatus(status) == status = 429

\* firstErr?.status === 429 || firstErr?.status === 503
IsOverloadedStatus(status) == status = 429 \/ status = 503

\* errText.slice(0, 300)
Excerpt(text) == SubSeq(text, 1, Min(Len(text), MaxExcerpt))

\* The branch taken when no entry is fulfilled.
FailureResponse(results) ==
    LET firstErr == results[1]
    IN  IF IsOverloadedStatus(firstErr.status)
        THEN Response(529, "typed", "overloaded_error",
                      IF firstErr.status = 429 THEN <<"Overloaded">>
                      ELSE <<"Service temporarily unavailable">>,
                      1, firstErr)
        ELSE Response(IF firstErr.status = 400 THEN 400 ELSE 500, "typed", "api_error",
                      IF TruthyStr(firstErr.errText) /\ Excerpt(firstErr.errText) # <<>>
                      THEN Excerpt(firstErr.errText) ELSE <<"All endpoints failed">>,
                      1, firstErr)

\* What the handler does once the race is joined.
Resolution(results, stream) ==
    LET success == FindFulfilled(results)
    IN  IF success # 0
        THEN Response(200, "none", IF stream THEN "stream" ELSE "message", <<>>,
                      success, results[success])
        ELSE FailureResponse(results)

\* ENDPOINTS.map(fetchOne): every fetch is issued before the handler awaits.
StartRace ==
    /\ hpc = "start"
    /\ sent' = [i \in DOMAIN ENDPOINTS |-> payloadStr]
    /\ hpc' = "racing"
    /\ UNCHANGED <<isStream, payloadStr, settled, arrival, response>>
    /\ UNCHANGED <<convVars, streamVars, otherVars>>

\* fetchOne(ENDPOINTS[i]) settles: the response is ok, or it is not and its
\* body was read, or the fetch (or the read of the body) failed.
Settle(i) ==
    /\ hpc = "racing"
    /\ settled[i] = Pending
    /\ \E o \in Outcomes : settled' = [settled EXCEPT ![i] = o]
    /\ arrival' = Append(arrival, i)
    /\ UNCHANGED <<isStream, payloadStr, sent, response, hpc>>
    /\ UNCHANGED <<convVars, streamVars, otherVars>>

\* await Promise.allSettled(...) resumes: the handler picks the response.
Resolve ==
    /\ hpc = "racing"
    /\ allSettled(settled)
    /\ response' = Resolution(settled, isStream)
    /\ hpc' = "responded"
    /\ UNCHANGED <<isStream, payloadStr, sent, settled, arrival>>
    /\ UNCHANGED <<convVars, streamVars, otherVars>>

RaceNext ==
    \/ StartRace
    \/ \E i \in DOMAIN ENDPOINTS : Settle(i)
    \/ Resolve

----------------------------------------------------------------------------
(* The request handler before the race: routing, the body, the token.      *)

\* The client's HTTP request: its method, whether its url starts with
\* /v1/messages, and its body ("invalid": no JSON; "noModel": JSON without
\* a model field; "valid"), with the stream flag of a body that parses.
HttpRequest(method, route, body, stream) ==
    [method |-> method, route |-> route, body |-> body, stream |-> stream]

HttpRequests ==
    {HttpRequest(m, r, b, st) :
        m \in {"POST", "GET", "OPTIONS"}, r \in BOOLEAN,
        b \in {"invalid", "noModel", "valid"}, st \in BOOLEAN}

\* if (req.method === "OPTIONS") { res.writeHead(200); res.end(); return; }
HandleOptions ==
    /\ hpc = "request"
    /\ httpRequest.method = "OPTIONS"
    /\ response' = Response(200, "none", "none", <<>>, 0, Pending)
    /\ hpc' = "responded"
    /\ UNCHANGED <<isStream, payloadStr, sent, settled, arrival, httpRequest>>
    /\ UNCHANGED <<convVars, streamVars, schemaVars, batchVars, laterVars>>

\* "Only handle POST /v1/messages": 404 with the body {error: "Not found"}.
RejectRoute ==
    /\ hpc = "request"
    /\ httpRequest.method # "OPTIONS"
    /\ httpRequest.method # "POST" \/ ~httpRequest.route
    /\ response' = Response(404, "bare", "none", <<"Not found">>, 0, Pending)
    /\ hpc' = "responded"
    /\ UNCHANGED <<isStream, payloadStr, sent, settled, arrival, httpRequest>>
    /\ UNCHANGED <<convVars, streamVars, schemaVars, batchVars, laterVars>>

\* JSON.parse(body) throws: 400 with the body {"error":"Invalid JSON"}.
RejectBody ==
    /\ hpc = "request"
    /\ httpRequest.method = "POST" /\ httpRequest.route
    /\ httpRequest.body = "invalid"
    /\ response' = Response(400, "bare", "none", <<"Invalid JSON">>, 0, Pending)
    /\ hpc' = "responded"
    /\ UNCHANGED <<isStream, payloadStr, sent, settled, arrival, httpRequest>>
    /\ UNCHANGED <<convVars, streamVars, schemaVars, batchVars, laterVars>>

\* The body parses: isStream is read and the request is converted.  A
\* throw of convertAnthropicToGoogle is outside the try: the handler ends
\* without a response.
AcceptRequest ==
    /\ hpc = "request"
    /\ httpRequest.method = "POST" /\ httpRequest.route
    /\ httpRequest.body # "invalid"
    /\ isStream' = httpRequest.stream
    /\ hpc' = IF httpRequest.body = "noModel" THEN "crashed" ELSE "token"
    /\ UNCHANGED <<payloadStr, sent, settled, arrival, response, httpRequest>>
    /\ UNCHANGED <<convVars, streamVars, schemaVars, batchVars, laterVars>>

\* const token = await getToken(); the payload is then serialized.
GetToken ==
    /\ hpc = "token"
    /\ payloadStr' \in {<<"body1">>, <<"body2">>}
    /\ hpc' = "start"
    /\ UNCHANGED <<isStream, sent, settled, arrival, response, httpRequest>>
    /\ UNCHANGED <<convVars, streamVars, schemaVars, batchVars, laterVars>>

\* The variant of GetTokenFail in which the handler goes on without a token.
GetTokenFailIgnored ==
    /\ hpc = "token"
    /\ payloadStr' \in {<<"body1">>, <<"body2">>}
    /\ hpc' = "start"
    /\ UNCHANGED <<isStream, sent, settled, arrival, response, httpRequest>>
    /\ UNCHANGED <<convVars, streamVars, schemaVars, batchVars, laterVars>>

\* getToken() rejects: the catch of the handler answers 500 api_error.
GetTokenFail ==
    /\ hpc = "token"
    /\ response' = Response(500, "typed", "api_error", <<"Token refresh failed">>,
                             0, Pending)
    /\ hpc' = "responded"
    /\ UNCHANGED <<isStream, payloadStr, sent, settled, arrival, httpRequest>>
    /\ UNCHANGED <<convVars, streamVars, schemaVars, batchVars, laterVars>>

HandlerNext ==
    \/ HandleOptions
    \/ RejectRoute
    \/ RejectBody
    \/ AcceptRequest
    \/ GetToken
    \/ GetTokenFail
    \/ StartRace
    \/ \E i \in DOMAIN ENDPOINTS : Settle(i)
    \/ Resolve

----------------------------------------------------------------------------
(* Two connections.  The server runs the handler once per inbound request; *)
(* every call of streamGoogleToAnthropic has its own locals, and the calls *)
(* interleave at their awaits.                                             *)

Connections == {1, 2}

\* The bodies the two upstream responses are drawn from.
ConnUpstreams ==
    { TextOf(1) \o TextOf(2),
      TextOf(2) \o TextOf(0) \o TextOf(1) \o <<Sym(1, 1)>>,
      TextOf(1) \o TextOf(3) \o TextOf(1) }

\* One call of streamGoogleToAnthropic: its position, its locals and output
\* (s), the body of its googleResp with the number of bytes delivered, and
\* its buffer.
Conn(pc, s, body, bytes, buf) ==
    [pc |-> pc, s |-> s, upstream |-> body, delivered |-> bytes, buffer |-> buf]

\* The variant of BufferOf in which the buffer is one variable of the module.
BufferOfFirst(c) == conns[1].buffer

\* let buffer: a local of the call.
BufferOf(c) == conns[c].buffer

\* The call of connection c up to its first await: message_start is written.
ConnStart(c) ==
    /\ conns[c].pc = "start"
    /\ conns' = [conns EXCEPT ![c].pc = "reading",
                              ![c].s.events = Append(@, MessageStart)]
    /\ UNCHANGED <<convVars, streamVars, raceVars, schemaVars, batchVars,
                   handlerVars, chunkVars, tokenVars, toolVars>>

\* reader.read() of connection c resolves with the next bytes of its body.
ConnRead(c) ==
    /\ conns[c].pc = "reading"
    /\ conns[c].delivered < Len(conns[c].upstream)
    /\ \E n \in 1..(Len(conns[c].upstream) - conns[c].delivered) :
          LET value == SubSeq(conns[c].upstream, conns[c].delivered + 1,
                              conns[c].delivered + n)
              lines == SplitLf(BufferOf(c) \o value)
              s == ProcessLines(conns[c].s, SubSeq(lines, 1, Len(lines) - 1))
          IN  conns' = [conns EXCEPT ![c] =
                  Conn(IF s.threw THEN "done" ELSE "reading",
                       IF s.threw THEN [s EXCEPT !.events = @ \o ClosingEvents(s)] ELSE s,
                       conns[c].upstream, conns[c].delivered + n, CarryOver(lines))]
    /\ UNCHANGED <<convVars, streamVars, raceVars, schemaVars, batchVars,
                   handlerVars, chunkVars, tokenVars, toolVars>>

\* reader.read() of connection c resolves with done: its stream is closed.
ConnEnd(c) ==
    /\ conns[c].pc = "reading"
    /\ conns[c].delivered = Len(conns[c].upstream)
    /\ conns' = [conns EXCEPT ![c].pc = "done",
                              ![c].s.events = @ \o ClosingEvents(conns[c].s)]
    /\ UNCHANGED <<convVars, streamVars, raceVars, schemaVars, batchVars,
                   handlerVars, chunkVars, tokenVars, toolVars>>

ConnNext ==
    \/ \E c \in Connections : ConnStart(c)
    \/ \E c \in Connections : ConnRead(c)
    \/ \E c \in Connections : ConnEnd(c)

----------------------------------------------------------------------------
(* The credential: refreshToken and getToken.  Every inbound request calls *)
(* getToken once; one action is the code between two awaits.  Times are    *)
(* milliseconds since the proxy started; the tokens are numbered in the    *)
(* order the token endpoint's answers are processed, 0 being the token     *)
(* read from the file at start.                                            *)

DefaultExpiresIn == 3600
MsPerSecond == 1000
ExpiryMarginMs == 300000

\* The inbound requests.
Callers == {1, 2}

\* creds, as far as getToken and refreshToken use it (expires_at Absent:
\* the file holds none).
Creds(token, expires_at) == [access_token |-> token, expires_at |-> expires_at]

\* What the token endpoint may answer as expires_in (Absent: nothing).
ExpiresInValues == {Absent, 60, DefaultExpiresIn}

\* How far the clock may advance between two steps.
ClockSteps == {1, ExpiryMarginMs, DefaultExpiresIn * MsPerSecond}

\* One call of getToken: its position, and what it saw and did (history):
\* whether the credential was past its expiry at the call, the token cached
\* and the number of tokens issued at the call, whether it sent a token
\* exchange, the token its exchange brought, the token it returned, and
\* creds and the file as they were when it returned.
CallState(pc, sawExpired, cachedAtCall, issuedAtCall, exchanged, own, returned, retCreds, retFile) ==
    [pc |-> pc, sawExpired |-> sawExpired, cachedAtCall |-> cachedAtCall,
     issuedAtCall |-> issuedAtCall, exchanged |-> exchanged, own |-> own,
     returned |-> returned, retCreds |-> retCreds, retFile |-> retFile]

NotCalled ==
    CallState("idle", FALSE, Absent, 0, FALSE, Absent, Absent,
              Creds(Absent, Absent), Creds(Absent, Absent))

\* The variant of MustRefresh that leaves the refresh to a call that has
\* one in flight.
MustRefreshUnlessInFlight ==
    /\ now >= (IF TruthyNum(creds.expires_at) THEN creds.expires_at ELSE 0)
    /\ \A c \in Callers : callers[c].pc # "fetching"

\* Date.now() >= (creds.expires_at || 0)
MustRefresh == now >= (IF TruthyNum(creds.expires_at) THEN creds.expires_at ELSE 0)

\* Date.now() + (data.expires_in || 3600) * 1000 - 300000
NewExpiry(expires_in) ==
    now + (IF TruthyNum(expires_in) THEN expires_in ELSE DefaultExpiresIn) * MsPerSecond
        - ExpiryMarginMs

\* The variant of WriteFile that writes nothing.
WriteFileSkipped(file, c) == file

\* writeFileSync(CRED_PATH, JSON.stringify(creds, null, 2))
WriteFile(file, c) == c

\* getToken() is called: the expiry test, then either the return of the
\* cached token or refreshToken() up to its first await (the POST is sent).
GetTokenCall(c) ==
    /\ callers[c].pc = "idle"
    /\ callers' = [callers EXCEPT ![c] =
          IF MustRefresh
          THEN CallState("fetching", TRUE, creds.access_token, issued, TRUE, Absent,
                         Absent, Creds(Absent, Absent), Creds(Absent, Absent))
          ELSE CallState("returned", FALSE, creds.access_token, issued, FALSE, Absent,
                         creds.access_token, creds, credFile)]
    /\ UNCHANGED <<creds, credFile, now, ticks, issued>>
    /\ UNCHANGED <<convVars, streamVars, raceVars, schemaVars, batchVars,
                   handlerVars, chunkVars, connVars, toolVars>>

\* The token endpoint answers with an access_token: creds is updated and
\* written to the file, and refreshToken returns.
ExchangeSucceeds(c) ==
    /\ callers[c].pc = "fetching"
    /\ \E expires_in \in ExpiresInValues :
          creds' = Creds(issued + 1, NewExpiry(expires_in))
    /\ credFile' = WriteFile(credFile, creds')
    /\ issued' = issued + 1
    /\ callers' = [callers EXCEPT ![c].pc = "refreshed", ![c].own = issued + 1]
    /\ UNCHANGED <<now, ticks>>
    /\ UNCHANGED <<convVars, streamVars, raceVars, schemaVars, batchVars,
                   handlerVars, chunkVars, connVars, toolVars>>

\* The fetch rejects, or the answer holds no access_token: refreshToken
\* throws and getToken rejects.
ExchangeFails(c) ==
    /\ callers[c].pc = "fetching"
    /\ callers' = [callers EXCEPT ![c].pc = "failed"]
    /\ UNCHANGED <<creds, credFile, now, ticks, issued>>
    /\ UNCHANGED <<convVars, streamVars, raceVars, schemaVars, batchVars,
                   handlerVars, chunkVars, connVars, toolVars>>

\* getToken resumes after "await refreshToken()": return creds.access_token.
GetTokenReturn(c) ==
    /\ callers[c].pc = "refreshed"
    /\ callers' = [callers EXCEPT ![c].pc = "returned",
                                  ![c].returned = creds.access_token,
                                  ![c].retCreds = creds,
                                  ![c].retFile = credFile]
    /\ UNCHANGED <<creds, credFile, now, ticks, issued>>
    /\ UNCHANGED <<convVars, streamVars, raceVars, schemaVars, batchVars,
                   handlerVars, chunkVars, connVars, toolVars>>

\* Time passes.
Tick ==
    /\ ticks < MaxTicks
    /\ \E d \in ClockSteps : now' = now + d
    /\ ticks' = ticks + 1
    /\ UNCHANGED <<creds, credFile, issued, callers>>
    /\ UNCHANGED <<convVars, streamVars, raceVars, schemaVars, batchVars,
                   handlerVars, chunkVars, connVars, toolVars>>

TokenNext ==
    \/ \E c \in Callers : GetTokenCall(c)
    \/ \E c \in Callers : ExchangeSucceeds(c)
    \/ \E c \in Callers : ExchangeFails(c)
    \/ \E c \in Callers : GetTokenReturn(c)
    \/ Tick

----------------------------------------------------------------------------
(* One request from its arrival to its response: the handler, with its     *)
(* call of getToken.  The request is caller 1; caller 2 is another request *)
(* that uses the credential at the same time.                              *)

\* const token = await getToken(): the call, up to its first await.
ServeGetToken ==
    /\ hpc = "token"
    /\ GetTokenCall(1)

\* Another request calls getToken.
ServeOtherGetToken ==
    /\ callers[2].pc = "idle"
    /\ GetTokenCall(2)

\* The handler resumes with the token.
ServeTokenReturned ==
    /\ callers[1].pc = "returned"
    /\ GetToken

\* The handler resumes in its catch: getToken rejected.
ServeTokenFailed ==
    /\ callers[1].pc = "failed"
    /\ GetTokenFail

ServeNext ==
    \/ HandleOptions
    \/ RejectRoute
    \/ RejectBody
    \/ AcceptRequest
    \/ ServeGetToken
    \/ ServeOtherGetToken
    \/ \E c \in Callers : ExchangeSucceeds(c)
    \/ \E c \in Callers : ExchangeFails(c)
    \/ \E c \in Callers : GetTokenReturn(c)
    \/ ServeTokenReturned
    \/ ServeTokenFailed
    \/ StartRace
    \/ \E i \in DOMAIN ENDPOINTS : Settle(i)
    \/ Resolve

----------------------------------------------------------------------------
(* Specifications.  Each starts one part of the proxy and leaves the       *)
(* variables of the other parts at rest.                                   *)

\* convertAnthropicToGoogle is called with a request.
InitConvert ==
    /\ req \in Requests
    /\ googleModel = Undef
    /\ rawContents = <<>>
    /\ contents = <<>>
    /\ generationConfig = NoConfig
    /\ cpc = "mapModel"
    /\ contentIndex = 0 /\ started = FALSE /\ inputTokens = 0 /\ outputTokens = 0
    /\ events = <<>> /\ ended = FALSE /\ reads = 0 /\ partsRead = 0
    /\ callsSeen = 0 /\ streamError = FALSE /\ spc = "idle"
    /\ partsSeen = <<>> /\ lastUsage = NoUsage /\ lastRead = "none"
    /\ isStream = FALSE /\ payloadStr = NothingSent
    /\ sent = [i \in DOMAIN ENDPOINTS |-> NothingSent]
    /\ settled = [i \in DOMAIN ENDPOINTS |-> Pending]
    /\ arrival = <<>> /\ response = NoResponse /\ hpc = "idle"
    /\ inputSchema = JNull /\ cleaned = JNull /\ npc = "idle"
    /\ googleSSE = <<>> /\ batchEvents = <<>> /\ eventIndex = 0 /\ batchContent = <<>>
    /\ batchStopReason = "end_turn" /\ batchInputTokens = 0 /\ batchOutputTokens = 0
    /\ anthropicResp = NoAnthropicResp /\ bpc = "idle"
    /\ httpRequest = HttpRequest("POST", TRUE, "valid", FALSE)
    /\ upstream = <<>> /\ delivered = 0 /\ buffer = <<>>
    /\ creds = <<>> /\ credFile = <<>> /\ now = 0 /\ ticks = 0 /\ issued = 0
    /\ callers = <<>>
    /\ conns = <<>>
    /\ reqTools = NoTools /\ declarations = <<>>

\* convertAnthropicToGoogle is called with a request that may carry tools,
\* for every model name.
InitTools ==
    /\ req \in {Request(m, <<StringMessage("user", <<"hi">>)>>, 4096, Absent, Absent) :
                    m \in ModelValues}
    /\ googleModel = Undef
    /\ rawContents = <<>>
    /\ contents = <<>>
    /\ generationConfig = NoConfig
    /\ cpc = "mapModel"
    /\ contentIndex = 0 /\ started = FALSE /\ inputTokens = 0 /\ outputTokens = 0
    /\ events = <<>> /\ ended = FALSE /\ reads = 0 /\ partsRead = 0
    /\ callsSeen = 0 /\ streamError = FALSE /\ spc = "idle"
    /\ partsSeen = <<>> /\ lastUsage = NoUsage /\ lastRead = "none"
    /\ isStream = FALSE /\ payloadStr = NothingSent
    /\ sent = [i \in DOMAIN ENDPOINTS |-> NothingSent]
    /\ settled = [i \in DOMAIN ENDPOINTS |-> Pending]
    /\ arrival = <<>> /\ response = NoResponse /\ hpc = "idle"
    /\ inputSchema = JNull /\ cleaned = JNull /\ npc = "idle"
    /\ googleSSE = <<>> /\ batchEvents = <<>> /\ eventIndex = 0 /\ batchContent = <<>>
    /\ batchStopReason = "end_turn" /\ batchInputTokens = 0 /\ batchOutputTokens = 0
    /\ anthropicResp = NoAnthropicResp /\ bpc = "idle"
    /\ httpRequest = HttpRequest("POST", TRUE, "valid", FALSE)
    /\ upstream = <<>> /\ delivered = 0 /\ buffer = <<>>
    /\ creds = <<>> /\ credFile = <<>> /\ now = 0 /\ ticks = 0 /\ issued = 0
    /\ callers = <<>>
    /\ conns = <<>>
    /\ reqTools \in ToolLists /\ declarations = <<>>

\* streamGoogleToAnthropic is called with an upstream response.
InitStream ==
    /\ req = Request(Undef, <<>>, Absent, Absent, Absent)
    /\ googleModel = Undef /\ rawContents = <<>> /\ contents = <<>>
    /\ generationConfig = NoConfig /\ cpc = "idle"
    /\ contentIndex = 0
    /\ started = FALSE
    /\ inputTokens = 0
    /\ outputTokens = 0
    /\ events = <<>>
    /\ ended = FALSE
    /\ reads = 0
    /\ partsRead = 0
    /\ callsSeen = 0
    /\ streamError = FALSE
    /\ partsSeen = <<>>
    /\ lastUsage = NoUsage
    /\ lastRead = "none"
    /\ spc = "start"
    /\ isStream = FALSE /\ payloadStr = NothingSent
    /\ sent = [i \in DOMAIN ENDPOINTS |-> NothingSent]
    /\ settled = [i \in DOMAIN ENDPOINTS |-> Pending]
    /\ arrival = <<>> /\ response = NoResponse /\ hpc = "idle"
    /\ inputSchema = JNull /\ cleaned = JNull /\ npc = "idle"
    /\ googleSSE = <<>> /\ batchEvents = <<>> /\ eventIndex = 0 /\ batchContent = <<>>
    /\ batchStopReason = "end_turn" /\ batchInputTokens = 0 /\ batchOutputTokens = 0
    /\ anthropicResp = NoAnthropicResp /\ bpc = "idle"
    /\ httpRequest = HttpRequest("POST", TRUE, "valid", FALSE)
    /\ upstream = <<>> /\ delivered = 0 /\ buffer = <<>>
    /\ creds = <<>> /\ credFile = <<>> /\ now = 0 /\ ticks = 0 /\ issued = 0
    /\ callers = <<>>
    /\ conns = <<>>
    /\ reqTools = NoTools /\ declarations = <<>>

\* Two streaming requests were accepted, and each has its upstream response.
InitConns ==
    /\ req = Request(Undef, <<>>, Absent, Absent, Absent)
    /\ googleModel = Undef /\ rawContents = <<>> /\ contents = <<>>
    /\ generationConfig = NoConfig /\ cpc = "idle"
    /\ contentIndex = 0
    /\ started = FALSE
    /\ inputTokens = 0
    /\ outputTokens = 0
    /\ events = <<>>
    /\ ended = FALSE
    /\ reads = 0
    /\ partsRead = 0
    /\ callsSeen = 0
    /\ streamError = FALSE
    /\ partsSeen = <<>>
    /\ lastUsage = NoUsage
    /\ lastRead = "none"
    /\ spc = "idle"
    /\ isStream = FALSE /\ payloadStr = NothingSent
    /\ sent = [i \in DOMAIN ENDPOINTS |-> NothingSent]
    /\ settled = [i \in DOMAIN ENDPOINTS |-> Pending]
    /\ arrival = <<>> /\ response = NoResponse /\ hpc = "idle"
    /\ inputSchema = JNull /\ cleaned = JNull /\ npc = "idle"
    /\ googleSSE = <<>> /\ batchEvents = <<>> /\ eventIndex = 0 /\ batchContent = <<>>
    /\ batchStopReason = "end_turn" /\ batchInputTokens = 0 /\ batchOutputTokens = 0
    /\ anthropicResp = NoAnthropicResp /\ bpc = "idle"
    /\ httpRequest = HttpRequest("POST", TRUE, "valid", FALSE)
    /\ upstream = <<>> /\ delivered = 0 /\ buffer = <<>>
    /\ creds = <<>> /\ credFile = <<>> /\ now = 0 /\ ticks = 0 /\ issued = 0
    /\ callers = <<>>
    /\ conns \in [Connections ->
                    {Conn("start", StreamState(0, FALSE, 0, 0, <<>>, 0, FALSE), u, 0, <<>>) :
                        u \in ConnUpstreams}]
    /\ reqTools = NoTools /\ declarations = <<>>

\* The stream translator is called with a response whose body arrives in
\* chunks.
InitChunks ==
    /\ req = Request(Undef, <<>>, Absent, Absent, Absent)
    /\ googleModel = Undef /\ rawContents = <<>> /\ contents = <<>>
    /\ generationConfig = NoConfig /\ cpc = "idle"
    /\ contentIndex = 0
    /\ started = FALSE
    /\ inputTokens = 0
    /\ outputTokens = 0
    /\ events = <<>>
    /\ ended = FALSE
    /\ reads = 0
    /\ partsRead = 0
    /\ callsSeen = 0
    /\ streamError = FALSE
    /\ partsSeen = <<>>
    /\ lastUsage = NoUsage
    /\ lastRead = "none"
    /\ spc = "start"
    /\ isStream = FALSE /\ payloadStr = NothingSent
    /\ sent = [i \in DOMAIN ENDPOINTS |-> NothingSent]
    /\ settled = [i \in DOMAIN ENDPOINTS |-> Pending]
    /\ arrival = <<>> /\ response = NoResponse /\ hpc = "idle"
    /\ inputSchema = JNull /\ cleaned = JNull /\ npc = "idle"
    /\ googleSSE = <<>> /\ batchEvents = <<>> /\ eventIndex = 0 /\ batchContent = <<>>
    /\ batchStopReason = "end_turn" /\ batchInputTokens = 0 /\ batchOutputTokens = 0
    /\ anthropicResp = NoAnthropicResp /\ bpc = "idle"
    /\ httpRequest = HttpRequest("POST", TRUE, "valid", FALSE)
    /\ upstream \in Upstreams /\ delivered = 0 /\ buffer = <<>>
    /\ creds = <<>> /\ credFile = <<>> /\ now = 0 /\ ticks = 0 /\ issued = 0
    /\ callers = <<>>
    /\ conns = <<>>
    /\ reqTools = NoTools /\ declarations = <<>>

\* The handler has the serialized provider request and starts the race.
InitRace ==
    /\ req = Request(Undef, <<>>, Absent, Absent, Absent)
    /\ googleModel = Undef /\ rawContents = <<>> /\ contents = <<>>
    /\ generationConfig = NoConfig /\ cpc = "idle"
    /\ contentIndex = 0 /\ started = FALSE /\ inputTokens = 0 /\ outputTokens = 0
    /\ events = <<>> /\ ended = FALSE /\ reads = 0 /\ partsRead = 0
    /\ callsSeen = 0 /\ streamError = FALSE /\ spc = "idle"
    /\ partsSeen = <<>> /\ lastUsage = NoUsage /\ lastRead = "none"
    /\ isStream \in BOOLEAN
    /\ payloadStr \in {<<"body1">>, <<"body2">>}
    /\ sent = [i \in DOMAIN ENDPOINTS |-> NothingSent]
    /\ settled = [i \in DOMAIN ENDPOINTS |-> Pending]
    /\ arrival = <<>>
    /\ response = NoResponse
    /\ hpc = "start"
    /\ inputSchema = JNull /\ cleaned = JNull /\ npc = "idle"
    /\ googleSSE = <<>> /\ batchEvents = <<>> /\ eventIndex = 0 /\ batchContent = <<>>
    /\ batchStopReason = "end_turn" /\ batchInputTokens = 0 /\ batchOutputTokens = 0
    /\ anthropicResp = NoAnthropicResp /\ bpc = "idle"
    /\ httpRequest = HttpRequest("POST", TRUE, "valid", FALSE)
    /\ upstream = <<>> /\ delivered = 0 /\ buffer = <<>>
    /\ creds = <<>> /\ credFile = <<>> /\ now = 0 /\ ticks = 0 /\ issued = 0
    /\ callers = <<>>
    /\ conns = <<>>
    /\ reqTools = NoTools /\ declarations = <<>>

\* The credentials file was read; no request has called getToken yet.
InitToken ==
    /\ req = Request(Undef, <<>>, Absent, Absent, Absent)
    /\ googleModel = Undef /\ rawContents = <<>> /\ contents = <<>>
    /\ generationConfig = NoConfig /\ cpc = "idle"
    /\ contentIndex = 0 /\ started = FALSE /\ inputTokens = 0 /\ outputTokens = 0
    /\ events = <<>> /\ ended = FALSE /\ reads = 0 /\ partsRead = 0
    /\ callsSeen = 0 /\ streamError = FALSE /\ spc = "idle"
    /\ partsSeen = <<>> /\ lastUsage = NoUsage /\ lastRead = "none"
    /\ isStream = FALSE
    /\ payloadStr = NothingSent
    /\ sent = [i \in DOMAIN ENDPOINTS |-> NothingSent]
    /\ settled = [i \in DOMAIN ENDPOINTS |-> Pending]
    /\ arrival = <<>>
    /\ response = NoResponse
    /\ hpc = "idle"
    /\ inputSchema = JNull /\ cleaned = JNull /\ npc = "idle"
    /\ googleSSE = <<>> /\ batchEvents = <<>> /\ eventIndex = 0 /\ batchContent = <<>>
    /\ batchStopReason = "end_turn" /\ batchInputTokens = 0 /\ batchOutputTokens = 0
    /\ anthropicResp = NoAnthropicResp /\ bpc = "idle"
    /\ httpRequest = HttpRequest("POST", TRUE, "valid", FALSE)
    /\ upstream = <<>> /\ delivered = 0 /\ buffer = <<>>
    /\ creds \in {Creds(0, Absent), Creds(0, ExpiryMarginMs)}
    /\ credFile = creds
    /\ now = 0 /\ ticks = 0 /\ issued = 0
    /\ callers = [c \in Callers |-> NotCalled]
    /\ conns = <<>>
    /\ reqTools = NoTools /\ declarations = <<>>

\* The normalizer is called with the input_schema of a tool.
InitSchema ==
    /\ req = Request(Undef, <<>>, Absent, Absent, Absent)
    /\ googleModel = Undef /\ rawContents = <<>> /\ contents = <<>>
    /\ generationConfig = NoConfig /\ cpc = "idle"
    /\ contentIndex = 0 /\ started = FALSE /\ inputTokens = 0 /\ outputTokens = 0
    /\ events = <<>> /\ ended = FALSE /\ reads = 0 /\ partsRead = 0
    /\ callsSeen = 0 /\ streamError = FALSE /\ spc = "idle"
    /\ partsSeen = <<>> /\ lastUsage = NoUsage /\ lastRead = "none"
    /\ isStream = FALSE /\ payloadStr = NothingSent
    /\ sent = [i \in DOMAIN ENDPOINTS |-> NothingSent]
    /\ settled = [i \in DOMAIN ENDPOINTS |-> Pending]
    /\ arrival = <<>> /\ response = NoResponse /\ hpc = "idle"
    /\ inputSchema \in SchemasUpTo(MaxDepth) \cup ScenarioSchemas
    /\ cleaned = JNull
    /\ npc = "strip"
    /\ googleSSE = <<>> /\ batchEvents = <<>> /\ eventIndex = 0 /\ batchContent = <<>>
    /\ batchStopReason = "end_turn" /\ batchInputTokens = 0 /\ batchOutputTokens = 0
    /\ anthropicResp = NoAnthropicResp /\ bpc = "idle"
    /\ httpRequest = HttpRequest("POST", TRUE, "valid", FALSE)
    /\ upstream = <<>> /\ delivered = 0 /\ buffer = <<>>
    /\ creds = <<>> /\ credFile = <<>> /\ now = 0 /\ ticks = 0 /\ issued = 0
    /\ callers = <<>>
    /\ conns = <<>>
    /\ reqTools = NoTools /\ declarations = <<>>

\* convertGoogleSSEToAnthropicStream is called with the body of an upstream
\* response.
InitBatch ==
    /\ req = Request(Undef, <<>>, Absent, Absent, Absent)
    /\ googleModel = Undef /\ rawContents = <<>> /\ contents = <<>>
    /\ generationConfig = NoConfig /\ cpc = "idle"
    /\ contentIndex = 0 /\ started = FALSE /\ inputTokens = 0 /\ outputTokens = 0
    /\ events = <<>> /\ ended = FALSE /\ reads = 0 /\ partsRead = 0
    /\ callsSeen = 0 /\ streamError = FALSE /\ spc = "idle"
    /\ partsSeen = <<>> /\ lastUsage = NoUsage /\ lastRead = "none"
    /\ isStream = FALSE /\ payloadStr = NothingSent
    /\ sent = [i \in DOMAIN ENDPOINTS |-> NothingSent]
    /\ settled = [i \in DOMAIN ENDPOINTS |-> Pending]
    /\ arrival = <<>> /\ response = NoResponse /\ hpc = "idle"
    /\ inputSchema = JNull /\ cleaned = JNull /\ npc = "idle"
    /\ googleSSE \in Bodies
    /\ batchEvents = <<>>
    /\ eventIndex = 0
    /\ batchContent = <<>>
    /\ batchStopReason = "end_turn"
    /\ batchInputTokens = 0
    /\ batchOutputTokens = 0
    /\ anthropicResp = NoAnthropicResp
    /\ bpc = "parse"
    /\ httpRequest = HttpRequest("POST", TRUE, "valid", FALSE)
    /\ upstream = <<>> /\ delivered = 0 /\ buffer = <<>>
    /\ creds = <<>> /\ credFile = <<>> /\ now = 0 /\ ticks = 0 /\ issued = 0
    /\ callers = <<>>
    /\ conns = <<>>
    /\ reqTools = NoTools /\ declarations = <<>>

\* The same upstream body is given to the stream translator and to the
\* batch translator.
InitAgree ==
    /\ req = Request(Undef, <<>>, Absent, Absent, Absent)
    /\ googleModel = Undef /\ rawContents = <<>> /\ contents = <<>>
    /\ generationConfig = NoConfig /\ cpc = "idle"
    /\ contentIndex = 0 /\ started = FALSE /\ inputTokens = 0 /\ outputTokens = 0
    /\ events = <<>> /\ ended = FALSE /\ reads = 0 /\ partsRead = 0
    /\ callsSeen = 0 /\ streamError = FALSE /\ spc = "start"
    /\ partsSeen = <<>> /\ lastUsage = NoUsage /\ lastRead = "none"
    /\ isStream = FALSE /\ payloadStr = NothingSent
    /\ sent = [i \in DOMAIN ENDPOINTS |-> NothingSent]
    /\ settled = [i \in DOMAIN ENDPOINTS |-> Pending]
    /\ arrival = <<>> /\ response = NoResponse /\ hpc = "idle"
    /\ inputSchema = JNull /\ cleaned = JNull /\ npc = "idle"
    /\ googleSSE \in Bodies
    /\ batchEvents = <<>>
    /\ eventIndex = 0
    /\ batchContent = <<>>
    /\ batchStopReason = "end_turn"
    /\ batchInputTokens = 0
    /\ batchOutputTokens = 0
    /\ anthropicResp = NoAnthropicResp
    /\ bpc = "parse"
    /\ httpRequest = HttpRequest("POST", TRUE, "valid", FALSE)
    /\ upstream = <<>> /\ delivered = 0 /\ buffer = <<>>
    /\ creds = <<>> /\ credFile = <<>> /\ now = 0 /\ ticks = 0 /\ issued = 0
    /\ callers = <<>>
    /\ conns = <<>>
    /\ reqTools = NoTools /\ declarations = <<>>

\* One upstream response is translated, by the stream translator (the
\* request asked for a stream) or by the batch translator.
InitTranslate ==
    /\ req = Request(Undef, <<>>, Absent, Absent, Absent)
    /\ googleModel = Undef /\ rawContents = <<>> /\ contents = <<>>
    /\ generationConfig = NoConfig /\ cpc = "idle"
    /\ contentIndex = 0 /\ started = FALSE /\ inputTokens = 0 /\ outputTokens = 0
    /\ events = <<>> /\ ended = FALSE /\ reads = 0 /\ partsRead = 0
    /\ callsSeen = 0 /\ streamError = FALSE
    /\ partsSeen = <<>> /\ lastUsage = NoUsage /\ lastRead = "none"
    /\ isStream \in BOOLEAN
    /\ spc = IF isStream THEN "start" ELSE "idle"
    /\ payloadStr = NothingSent
    /\ sent = [i \in DOMAIN ENDPOINTS |-> NothingSent]
    /\ settled = [i \in DOMAIN ENDPOINTS |-> Pending]
    /\ arrival = <<>> /\ response = NoResponse /\ hpc = "idle"
    /\ inputSchema = JNull /\ cleaned = JNull /\ npc = "idle"
    /\ googleSSE \in IF isStream THEN {<<>>} ELSE Bodies
    /\ batchEvents = <<>>
    /\ eventIndex = 0
    /\ batchContent = <<>>
    /\ batchStopReason = "end_turn"
    /\ batchInputTokens = 0
    /\ batchOutputTokens = 0
    /\ anthropicResp = NoAnthropicResp
    /\ bpc = IF isStream THEN "idle" ELSE "parse"
    /\ httpRequest = HttpRequest("POST", TRUE, "valid", FALSE)
    /\ upstream = <<>> /\ delivered = 0 /\ buffer = <<>>
    /\ creds = <<>> /\ credFile = <<>> /\ now = 0 /\ ticks = 0 /\ issued = 0
    /\ callers = <<>>
    /\ conns = <<>>
    /\ reqTools = NoTools /\ declarations = <<>>

\* The server received a request.
InitHandler ==
    /\ req = Request(Undef, <<>>, Absent, Absent, Absent)
    /\ googleModel = Undef /\ rawContents = <<>> /\ contents = <<>>
    /\ generationConfig = NoConfig /\ cpc = "idle"
    /\ contentIndex = 0 /\ started = FALSE /\ inputTokens = 0 /\ outputTokens = 0
    /\ events = <<>> /\ ended = FALSE /\ reads = 0 /\ partsRead = 0
    /\ callsSeen = 0 /\ streamError = FALSE /\ spc = "idle"
    /\ partsSeen = <<>> /\ lastUsage = NoUsage /\ lastRead = "none"
    /\ isStream = FALSE
    /\ payloadStr = NothingSent
    /\ sent = [i \in DOMAIN ENDPOINTS |-> NothingSent]
    /\ settled = [i \in DOMAIN ENDPOINTS |-> Pending]
    /\ arrival = <<>>
    /\ response = NoResponse
    /\ hpc = "request"
    /\ inputSchema = JNull /\ cleaned = JNull /\ npc = "idle"
    /\ googleSSE = <<>> /\ batchEvents = <<>> /\ eventIndex = 0 /\ batchContent = <<>>
    /\ batchStopReason = "end_turn" /\ batchInputTokens = 0 /\ batchOutputTokens = 0
    /\ anthropicResp = NoAnthropicResp /\ bpc = "idle"
    /\ httpRequest \in HttpRequests
    /\ upstream = <<>> /\ delivered = 0 /\ buffer = <<>>
    /\ creds = <<>> /\ credFile = <<>> /\ now = 0 /\ ticks = 0 /\ issued = 0
    /\ callers = <<>>
    /\ conns = <<>>
    /\ reqTools = NoTools /\ declarations = <<>>

\* The server received a request; the credential is as it was read from the
\* file, expired or not.
InitServe ==
    /\ req = Request(Undef, <<>>, Absent, Absent, Absent)
    /\ googleModel = Undef /\ rawContents = <<>> /\ contents = <<>>
    /\ generationConfig = NoConfig /\ cpc = "idle"
    /\ contentIndex = 0 /\ started = FALSE /\ inputTokens = 0 /\ outputTokens = 0
    /\ events = <<>> /\ ended = FALSE /\ reads = 0 /\ partsRead = 0
    /\ callsSeen = 0 /\ streamError = FALSE /\ spc = "idle"
    /\ partsSeen = <<>> /\ lastUsage = NoUsage /\ lastRead = "none"
    /\ isStream = FALSE
    /\ payloadStr = NothingSent
    /\ sent = [i \in DOMAIN ENDPOINTS |-> NothingSent]
    /\ settled = [i \in DOMAIN ENDPOINTS |-> Pending]
    /\ arrival = <<>>
    /\ response = NoResponse
    /\ hpc = "request"
    /\ inputSchema = JNull /\ cleaned = JNull /\ npc = "idle"
    /\ googleSSE = <<>> /\ batchEvents = <<>> /\ eventIndex = 0 /\ batchContent = <<>>
    /\ batchStopReason = "end_turn" /\ batchInputTokens = 0 /\ batchOutputTokens = 0
    /\ anthropicResp = NoAnthropicResp /\ bpc = "idle"
    /\ httpRequest \in HttpRequests
    /\ upstream = <<>> /\ delivered = 0 /\ buffer = <<>>
    /\ creds \in {Creds(0, Absent), Creds(0, ExpiryMarginMs)}
    /\ credFile = creds
    /\ now = 0 /\ ticks = 0 /\ issued = 0
    /\ callers = [c \in Callers |-> NotCalled]
    /\ conns = <<>>
    /\ reqTools = NoTools /\ declarations = <<>>

SpecConvert == InitConvert /\ [][ConvNext]_vars

SpecTools == InitTools /\ [][ConvNext]_vars

SpecStream == InitStream /\ [][StreamNext]_vars

\* The call runs up to its first await, and the upstream body is finite:
\* some reader.read() resolves with done or rejects (the response ends, the
\* connection breaks, or the body times out).
SpecStreamFair ==
    /\ InitStream /\ [][StreamNext]_vars
    /\ WF_vars(StreamStart)
    /\ WF_vars(ReadDone \/ ReadFail)

SpecChunks == InitChunks /\ [][ChunkNext]_vars

SpecConns == InitConns /\ [][ConnNext]_vars

SpecRace == InitRace /\ [][RaceNext]_vars

SpecToken == InitToken /\ [][TokenNext]_vars

SpecSchema == InitSchema /\ [][SchemaNext]_vars

SpecBatch == InitBatch /\ [][BatchNext]_vars

SpecAgree == InitAgree /\ [][AgreeNext]_vars

SpecTranslate == InitTranslate /\ [][TranslateNext]_vars

SpecHandler == InitHandler /\ [][HandlerNext]_vars

SpecServe == InitServe /\ [][ServeNext]_vars

\* The handler runs whenever it can, and every await of the handler settles:
\* the token endpoint and both backend endpoints answer or fail.
SpecServeFair == InitServe /\ [][ServeNext]_vars /\ WF_vars(ServeNext)

----------------------------------------------------------------------------
(* Properties of convertAnthropicToGoogle.                                 *)

NoAdjacentSameRole(turns) ==
    \A i \in 1..(Len(turns) - 1) : turns[i].role # turns[i + 1].role

\* C1: whatever the client messages are, the provider turn list that
\* convertAnthropicToGoogle produces has no two adjacent turns of the same
\* role.
C1_RoleAlternation ==
    cpc \in {"config", "done"} => NoAdjacentSameRole(contents)

\* A conversation in which turns were merged and several turns remain.
C1_Witness ==
    /\ cpc = "done"
    /\ Len(contents) >= 2
    /\ Len(rawContents) >= Len(contents) + 2
    /\ \E i \in 1..(Len(rawContents) - 1) : rawContents[i].role = rawContents[i + 1].role

\* The token limit a request asks for: max_tokens, or 16384 when max_tokens
\* is absent (the code takes a max_tokens of 0 as absent).
RequestedMaxTokens ==
    IF req.max_tokens = Absent \/ req.max_tokens = 0 THEN 16384 ELSE req.max_tokens

Floor25Percent(n) == n \div 4

Clamp(x, lo, hi) == IF x < lo THEN lo ELSE IF x > hi THEN hi ELSE x

IsDroppedBlock(b) ==
    \/ b.type \in {"thinking", "null"}
    \/ b.type = "text" /\ (b.text = Undef \/ b.text = <<>>)
    \/ b.type = "document" /\ ~TruthyStr(b.text) /\ b.content.kind = "null"

\* A message without tool results of which nothing is left after conversion.
BecomesEmpty(m) ==
    \/ m.kind = "string" /\ m.str = <<>>
    \/ m.kind = "other"
    \/ m.kind = "array" /\ \A i \in 1..Len(m.blocks) : IsDroppedBlock(m.blocks[i])

ProviderRole(m) == IF m.role = "assistant" THEN "model" ELSE "user"

\* C10: every provider turn that convertAnthropicToGoogle produces, before
\* and after the merge, has at least one part; a message whose blocks are
\* all dropped or filtered out becomes a turn holding exactly the non-empty
\* placeholder text part.
C10_NoEmptyTurn ==
    /\ cpc \in {"merge", "config", "done"} =>
          /\ \A i \in 1..Len(rawContents) : Len(rawContents[i].parts) >= 1
          /\ (Len(req.messages) = 1 /\ BecomesEmpty(req.messages[1])) =>
                /\ rawContents = <<Turn(ProviderRole(req.messages[1]),
                                        <<TextPart(<<"...">>)>>)>>
                /\ rawContents[1].parts[1].text # <<>>
    /\ cpc \in {"config", "done"} =>
          \A i \in 1..Len(contents) : Len(contents[i].parts) >= 1

\* An assistant message that holds a Thinking block only.
C10_Witness ==
    /\ cpc = "done"
    /\ req.messages = <<BlockMessage("assistant", <<ThinkingBlock>>)>>
    /\ contents = <<Turn("model", <<TextPart(<<"...">>)>>)>>

\* C11: request translation is total: for every parsed client request,
\* a request without a model field included, convertAnthropicToGoogle
\* returns a provider request and raises no per-request failure.
C11_TotalTransform == cpc # "threw"

\* The backend target the mapping rule names for a model name.
ExpectedTarget(name) ==
    IF name \in DOMAIN MODEL_MAP THEN MODEL_MAP[name]
    ELSE IF Includes(name, Words.opus) THEN Names.opus46thinking
    ELSE IF Includes(name, Words.sonnet) THEN Names.sonnet45thinking
    ELSE Names.opus46thinking

\* C12: every model name is resolved to a backend target: an exact match in
\* the table wins, else a name containing "opus" maps to the opus thinking
\* target, else a name containing "sonnet" maps to the sonnet thinking
\* target, else the default target; no model name makes the mapping fail.
C12_MapModelPrecedence ==
    (cpc # "mapModel" /\ req.model # Undef) =>
        googleModel = ExpectedTarget(req.model)

----------------------------------------------------------------------------
(* Properties of the tool schema normalizer.                               *)

\* The fields a normalized schema node may carry.
NormalizedFields ==
    {<<"type">>, <<"description">>, <<"properties">>, <<"required">>,
     <<"items">>, <<"enum">>, <<"nullable">>}

\* A type that is there and is not empty: a non-empty string, or a
\* non-empty list of type names.
NonEmptyType(t) ==
    \/ t.kind = "string" /\ t.str # <<>>
    \/ t.kind = "array" /\ t.vals # <<>>

\* The node x, and every node below it under properties (per key) and
\* items, carries only normalized fields and a non-empty type.  A value
\* that is no object (null, a string, a boolean) is no node.
RECURSIVE NormalizedNode(_)
NormalizedNode(x) ==
    IF x.kind = "array"
    THEN \A i \in 1..Len(x.vals) : NormalizedNode(x.vals[i])
    ELSE IF x.kind # "object" THEN TRUE
    ELSE /\ \A i \in 1..Len(x.keys) : x.keys[i] \in NormalizedFields
         /\ HasKey(x, Keys.type)
         /\ NonEmptyType(GetKey(x, Keys.type))
         /\ LET props == GetKey(x, Keys.properties)
            IN  props.kind = "object" =>
                    \A i \in 1..Len(props.vals) : NormalizedNode(props.vals[i])
         /\ NormalizedNode(GetKey(x, Keys.items))

\* C13: for every input tool schema, every node of the schema that
\* stripDollarSchema, sanitizeSchema and ensureSchemaType emit, at every
\* nesting level under properties and items, carries only fields from
\* {type, description, properties, required, items, enum, nullable} and has
\* a non-empty type.
C13_NormalizedSchema == npc = "done" => NormalizedNode(cleaned)

----------------------------------------------------------------------------
(* Properties of streamGoogleToAnthropic, read off the client stream.      *)

\* The positions of the client stream that hold an event of the given type.
Positions(type) == {k \in 1..Len(events) : events[k].type = type}

ToolStarts == {k \in Positions("content_block_start") : events[k].kind = "tool_use"}

\* The number of blocks opened, and closed, within the first k events.
StartsUpTo(k) == Cardinality({j \in Positions("content_block_start") : j <= k})
StopsUpTo(k) == Cardinality({j \in Positions("content_block_stop") : j <= k})

\* The number of blocks that are open after the first k events.
OpenAfter(k) == StartsUpTo(k) - StopsUpTo(k)

\* C2: the final message_delta carries stop_reason "tool_use" if a tool_use
\* block was emitted during the stream, and "end_turn" otherwise.
C2_StopReason ==
    spc = "done" =>
        \A k \in Positions("message_delta") :
            events[k].kind = (IF ToolStarts # {} THEN "tool_use" ELSE "end_turn")

\* C3: every part that carries a function call produces exactly one tool_use
\* block: after any open text block is closed, content_block_start(tool_use,
\* empty input), one input_json_delta and content_block_stop follow each
\* other at the same index.
C3_OneToolBlockPerCall ==
    /\ Cardinality(ToolStarts) = callsSeen
    /\ \A k \in ToolStarts :
          /\ OpenAfter(k - 1) = 0
          /\ events[k].data = <<>>
          /\ k + 2 <= Len(events)
          /\ events[k + 1].type = "content_block_delta"
          /\ events[k + 1].kind = "input_json_delta"
          /\ events[k + 1].index = events[k].index
          /\ events[k + 2].type = "content_block_stop"
          /\ events[k + 2].index = events[k].index

\* C4: block indices run 0, 1, 2, ... in the order the blocks are opened; at
\* most one block is open at a time; a block is closed, with its own index,
\* before the next block opens and before message_delta; every delta
\* carries the index of the block that is open, and is of that block's kind.
C4_BlockDiscipline ==
    /\ \A k \in 0..Len(events) : OpenAfter(k) \in {0, 1}
    /\ \A k \in Positions("content_block_start") :
          /\ events[k].index = StartsUpTo(k) - 1
          /\ OpenAfter(k - 1) = 0
    /\ \A k \in Positions("content_block_stop") :
          /\ OpenAfter(k - 1) = 1
          /\ events[k].index = StartsUpTo(k) - 1
    /\ \A k \in Positions("content_block_delta") :
          /\ OpenAfter(k) = 1
          /\ events[k].index = StartsUpTo(k) - 1
          /\ events[k].kind = "input_json_delta" =>
                events[k - 1].type = "content_block_start" /\ events[k - 1].kind = "tool_use"
          /\ events[k].kind = "text_delta" =>
                \/ events[k - 1].type = "content_block_start" /\ events[k - 1].kind = "text"
                \/ events[k - 1].kind = "text_delta"
    /\ \A k \in Positions("message_delta") : OpenAfter(k) = 0
    /\ spc = "done" => OpenAfter(Len(events)) = 0

\* A stream of a text block, a tool_use block and a second text block.
C4_Witness ==
    /\ spc = "done"
    /\ Cardinality(Positions("content_block_start")) = 3
    /\ Cardinality(ToolStarts) = 1
    /\ \E k \in ToolStarts : events[k].index = 1

\* The client stream is complete: it starts with the one message_start and
\* ends with the stop of the text block that was open, the one
\* message_delta and the one message_stop, and the connection is ended.
StreamClosed ==
    /\ ended
    /\ Len(events) >= 3
    /\ events[1] = MessageStart
    /\ Positions("message_start") = {1}
    /\ Positions("message_delta") = {Len(events) - 1}
    /\ Positions("message_stop") = {Len(events)}
    /\ OpenAfter(Len(events) - 2) = 0
    /\ started => /\ events[Len(events) - 2] = BlockStop(contentIndex)
                  /\ events[Len(events) - 3].kind = "text_delta"

\* While the stream runs: message_start is written before the first read,
\* once, and nothing of the closing sequence has been written.
StreamOpen ==
    /\ ~ended
    /\ spc = "start" => events = <<>> /\ reads = 0
    /\ spc = "reading" =>
          /\ events # <<>> /\ events[1] = MessageStart
          /\ Positions("message_start") = {1}
    /\ Positions("message_delta") = {} /\ Positions("message_stop") = {}

\* C5: whether the upstream ends or a read fails, the client stream begins
\* with exactly one message_start, written before any upstream read, and
\* eventually ends with the closing sequence (content_block_stop of an open
\* text block, one message_delta, one message_stop, connection ended), after
\* which nothing is written.
C5_AlwaysClosed ==
    /\ [](IF spc = "done" THEN StreamClosed ELSE StreamOpen)
    /\ [][spc = "done" => events' = events]_vars
    /\ <>(spc = "done")

\* A read fails while a text block is open.
C5_Witness ==
    /\ spc = "done"
    /\ streamError
    /\ started
    /\ reads = 2
    /\ StreamClosed

----------------------------------------------------------------------------
(* Properties of the two translators, read against the backend response.   *)

\* A part whose text is externally visible: it has text, is not marked as
\* a thought, and is no signature-only fragment.
IsVisibleText(part) ==
    /\ ~part.isNull
    /\ part.text # Undef
    /\ ~part.thought
    /\ ~(TruthyStr(part.thoughtSignature) /\ ~TruthyStr(part.text))

\* The visible text fragments of a list of parts, in encounter order.
VisibleFragments(parts) ==
    LET visible == SelectSeq(parts, IsVisibleText)
    IN  [i \in 1..Len(visible) |-> visible[i].text]

HasFunctionCall(part) == ~part.isNull /\ part.functionCall.present

\* The function calls of a list of parts, in encounter order.
FunctionCalls(parts) ==
    LET calling == SelectSeq(parts, HasFunctionCall)
    IN  [i \in 1..Len(calling) |-> calling[i].functionCall]

NoNullPart(parts) == \A i \in 1..Len(parts) : ~parts[i].isNull

\* The parts of a body, in encounter order: those of its data lines that
\* parse to an envelope with parts.
BodyParts(lines) ==
    Flatten([i \in 1..Len(lines) |->
                IF lines[i].kind = "response" /\ lines[i].hasParts
                THEN lines[i].parts ELSE <<>>])

\* The usage metadata of the last line of a body that carries one.
RECURSIVE LastUsageOf(_)
LastUsageOf(lines) ==
    IF lines = <<>> THEN NoUsage
    ELSE IF lines[Len(lines)].usage.present THEN lines[Len(lines)].usage
    ELSE LastUsageOf(SubSeq(lines, 1, Len(lines) - 1))

\* C14: a data line that parses as JSON but has an unexpected shape (a
\* null envelope, a null part) is skipped and the rest of the backend
\* response is still translated: the stream translator ends only when the
\* upstream ends or a read fails, never because of what a line holds, and
\* the batch translator returns a response for every body.
C14_AnomalyNotFatal ==
    /\ spc = "done" => lastRead # "line"
    /\ bpc # "threw"

\* The text_delta events of the client stream, in order.
IsTextDelta(e) == e.type = "content_block_delta" /\ e.kind = "text_delta"
TextDeltas == SelectSeq(events, IsTextDelta)

\* The event k lies inside an open text block of its own index.
InOpenTextBlock(k) ==
    \E j \in 1..(k - 1) :
        /\ events[j] = TextBlockStart(events[k].index)
        /\ \A m \in (j + 1)..k : events[m].type \notin
                {"content_block_start", "content_block_stop"}

\* C15: the text_delta events of the client stream are exactly the visible
\* text fragments the backend has delivered, in encounter order, one
\* text_delta per visible text part, each inside an open text block;
\* reasoning text and signature-only fragments are never forwarded.
C15_TextDeltasAreVisibleText ==
    NoNullPart(partsSeen) =>
        /\ [i \in 1..Len(TextDeltas) |-> TextDeltas[i].data] = VisibleFragments(partsSeen)
        /\ \A k \in 1..Len(events) : IsTextDelta(events[k]) => InOpenTextBlock(k)

\* A reasoning part and a visible text part were delivered: one text_delta.
C15_Witness ==
    /\ spc = "done"
    /\ Len(partsSeen) = 2
    /\ partsSeen[1].thought /\ partsSeen[1].text = <<"r">>
    /\ IsVisibleText(partsSeen[2]) /\ partsSeen[2].text = <<"t">>
    /\ Len(TextDeltas) = 1
    /\ TextDeltas[1].data = <<"t">>

\* The text of the batch response: that of its text block, "" without one.
TextBlocksOf(blocks) == SelectSeq(blocks, IsTextContent)
BatchText ==
    IF TextBlocksOf(anthropicResp.content) = <<>> THEN <<>>
    ELSE TextBlocksOf(anthropicResp.content)[1].text

\* C16: the text block of the batch response is the concatenation, in
\* encounter order, of exactly the visible text fragments of the body: no
\* text of a part marked as a thought is included and no visible fragment
\* is left out.
C16_BatchTextIsVisibleText ==
    bpc = "done" =>
        /\ Len(TextBlocksOf(anthropicResp.content)) <= 1
        /\ BatchText = Flatten(VisibleFragments(BodyParts(googleSSE)))

ToolUseBlocksOf(blocks) == SelectSeq(blocks, IsToolUseContent)

\* C17: the batch response holds one tool_use block per function-call
\* part, in encounter order, and its stop_reason is "tool_use" if and only
\* if its content holds a tool_use block, "end_turn" otherwise, whatever
\* finishReason the backend reported.
C17_BatchToolUse ==
    bpc = "done" =>
        LET calls == FunctionCalls(BodyParts(googleSSE))
            tools == ToolUseBlocksOf(anthropicResp.content)
        IN  /\ Len(tools) = Len(calls)
            /\ \A i \in 1..Len(tools) :
                  /\ tools[i].name = calls[i].name
                  /\ calls[i].args # Undef => tools[i].input = calls[i].args
            /\ anthropicResp.stop_reason =
                  (IF Len(tools) > 0 THEN "tool_use" ELSE "end_turn")

\* Two function calls in an envelope whose finishReason is STOP.
C17_Witness ==
    /\ bpc = "done"
    /\ Len(googleSSE) = 1
    /\ googleSSE[1].finishReason = <<"STOP">>
    /\ Len(ToolUseBlocksOf(anthropicResp.content)) = 2
    /\ anthropicResp.stop_reason = "tool_use"

\* C18: the content of every batch response has at least one block; when
\* the body yields no visible text and no function call (an empty body and
\* a body of malformed lines included), the content is exactly one text
\* block with empty text.
C18_BatchContentNotEmpty ==
    bpc = "done" =>
        /\ Len(anthropicResp.content) >= 1
        /\ (/\ VisibleFragments(BodyParts(googleSSE)) = <<>>
            /\ FunctionCalls(BodyParts(googleSSE)) = <<>>) =>
                anthropicResp.content = <<TextContent(<<>>)>>

\* candidatesTokenCount + thoughtsTokenCount of a usage metadata (a count
\* that is not reported is 0), 0 when there is no usage metadata.
ReportedOutputTokens(usage) ==
    IF ~usage.present THEN 0
    ELSE (IF usage.candidates = Absent THEN 0 ELSE usage.candidates)
       + (IF usage.thoughts = Absent THEN 0 ELSE usage.thoughts)

\* C19: usage counters are overwritten, not accumulated: in the stream
\* translator the running output count, and the count the message_delta
\* reports, is that of the last usage metadata delivered (0 before any), so
\* a line without usage metadata leaves it unchanged; the batch response
\* reports that of the last usage metadata of the body.
C19_UsageOverwritten ==
    /\ NoNullPart(partsSeen) =>
          /\ outputTokens = ReportedOutputTokens(lastUsage)
          /\ \A k \in Positions("message_delta") :
                events[k].tokens = ReportedOutputTokens(lastUsage)
    /\ bpc = "done" =>
          anthropicResp.output_tokens = ReportedOutputTokens(LastUsageOf(googleSSE))

\* The stream ended after a usage metadata without a thoughts count.
C19_Witness ==
    /\ spc = "done"
    /\ lastRead = "done"
    /\ reads = 3
    /\ lastUsage = Usage(12, 7, Absent)
    /\ events[Len(events) - 1].tokens = 7

----------------------------------------------------------------------------
(* Properties of the endpoint race.                                        *)

Succeeded(i) == settled[i].state = "fulfilled"
Failed(i) == settled[i].state = "rejected"
FailedOverloaded(i) == Failed(i) /\ settled[i].status \in {429, 503}

C7_AllOverloaded ==
    (hpc = "responded" /\ \A i \in DOMAIN ENDPOINTS : FailedOverloaded(i)) =>
        /\ response.status = 529
        /\ response.type = "overloaded_error"

\* Every candidate returned 503.
C7_Witness ==
    /\ hpc = "responded"
    /\ \A i \in DOMAIN ENDPOINTS : Failed(i) /\ settled[i].status = 503
    /\ response.status = 529

\* C8: the overloaded response is sent only when every candidate returned
\* 429 or 503; if a candidate failed with another status or with a network
\* error, the client receives the generic upstream error.
C8_OverloadedOnlyIfAll ==
    hpc = "responded" =>
        /\ response.type = "overloaded_error" =>
              \A i \in DOMAIN ENDPOINTS : FailedOverloaded(i)
        /\ ((\A i \in DOMAIN ENDPOINTS : Failed(i)) /\
            (\E i \in DOMAIN ENDPOINTS : ~FailedOverloaded(i))) =>
              response.type = "api_error"

\* C20: every error response sent before streaming has begun (unknown
\* route, unparsable body, overloaded upstream, rejected upstream, internal
\* failure) has the same envelope, which carries an error kind and an
\* error message.
C20_OneErrorEnvelope ==
    (hpc = "responded" /\ response.status # 200) =>
        /\ response.envelope = "typed"
        /\ response.type \in {"overloaded_error", "api_error"}
        /\ response.message # <<>>

----------------------------------------------------------------------------
(* Tool results and their sibling text (C22, C23).                         *)

ConversionDone == cpc \in {"merge", "config", "tools", "done"}

HasToolResults(m) ==
    m.kind = "array" /\ \E i \in DOMAIN m.blocks : IsToolResult(m.blocks[i])

ToolResultsOf(m) == SelectSeq(m.blocks, IsToolResult)

\* The position in rawContents of the first turn that message k pushed.
FirstTurnOf(k) == Len(ConvertMessages(SubSeq(req.messages, 1, k - 1))) + 1

\* The payload the claim describes: a string is passed through, the texts of
\* nested text blocks are joined, anything else is serialized as JSON.
DescribedPayload(c) ==
    IF c.kind = "string" THEN c.str
    ELSE IF c.kind = "array"
         THEN LET texts == SelectSeq(c.items, IsTextBlock)
              IN  JoinNl([i \in 1..Len(texts) |-> texts[i].text])
    ELSE JsonText

\* C22: every client message containing tool-result blocks becomes a user
\* turn holding exactly one FunctionResponse part per tool-result block, in
\* block order, whose name and id are the block's tool_use_id and whose
\* payload is the text extracted from the block's content (a string passed
\* through, nested text blocks concatenated, otherwise the JSON text).
C22_ToolResultTurn ==
    ConversionDone =>
        \A k \in DOMAIN req.messages :
            HasToolResults(req.messages[k]) =>
                LET trs == ToolResultsOf(req.messages[k])
                    turn == rawContents[FirstTurnOf(k)]
                IN  /\ turn.role = "user"
                    /\ Len(turn.parts) = Len(trs)
                    /\ \A i \in DOMAIN trs :
                          /\ turn.parts[i].kind = "functionResponse"
                          /\ turn.parts[i].name = trs[i].id
                          /\ turn.parts[i].id = trs[i].id
                          /\ turn.parts[i].payload = DescribedPayload(trs[i].content)

HasSiblingText(m) ==
    m.kind = "array" /\ \E i \in DOMAIN m.blocks : IsTruthyText(m.blocks[i])

IsFunctionResponseTurn(t) ==
    /\ t.role = "user"
    /\ \A i \in DOMAIN t.parts : t.parts[i].kind = "functionResponse"

IsTextTurn(t) ==
    /\ t.role = "user"
    /\ \A i \in DOMAIN t.parts : t.parts[i].kind = "text"

\* C23: when a client message holds tool-result blocks together with sibling
\* plain-text blocks, the provider request holds the text in a second user
\* turn, separate from and immediately after the turn of the FunctionResponse
\* parts.
C23_SiblingTextSeparateTurn ==
    (cpc = "done" /\ \E k \in DOMAIN req.messages :
                        HasToolResults(req.messages[k]) /\ HasSiblingText(req.messages[k])) =>
        \E i \in 1..(Len(contents) - 1) :
            /\ IsFunctionResponseTurn(contents[i])
            /\ IsTextTurn(contents[i + 1])

----------------------------------------------------------------------------
(* The generic upstream error (C24).                                       *)

IsGenericFailure(o) ==
    o.state = "rejected" /\ o.status # Absent /\ ~IsOverloadedStatus(o.status)

IsPrefix(a, b) == Len(a) <= Len(b) /\ a = SubSeq(b, 1, Len(a))

\* C24: when no candidate succeeded and the primary candidate failed with a
\* non-2xx status other than 429 and 503, the client receives the api_error
\* response whose message is an excerpt, of at most 300 characters, of the
\* primary candidate's response body, with status 400 when the primary
\* returned 400 and status 500 otherwise.
C24_GenericUpstreamError ==
    (hpc = "responded" /\ allSettled(settled) /\ FindFulfilled(settled) = 0
        /\ IsGenericFailure(settled[1])) =>
        /\ response.type = "api_error"
        /\ response.status = (IF settled[1].status = 400 THEN 400 ELSE 500)
        /\ Len(response.message) <= 300
        /\ IsPrefix(response.message, settled[1].errText)
        /\ (Len(settled[1].errText) <= 300 => response.message = settled[1].errText)

----------------------------------------------------------------------------
(* The generation config of a target that is not thinking-capable (C25).   *)

----------------------------------------------------------------------------
(* Union flattening and type inference (C27, C28).                         *)

\* The schema handed to sanitizeSchema, and the one handed to
\* ensureSchemaType.
StrippedInput ==
    stripDollarSchema(IF Truthy(inputSchema) THEN inputSchema ELSE JObj(<<>>, <<>>))

SanitizedInput == sanitizeSchema(StrippedInput)

\* The object candidates of a node's union (anyOf, else oneOf).
Candidates(node) ==
    LET anyOf == GetKey(node, Keys.anyOf)
        list == IF Truthy(anyOf) THEN anyOf ELSE GetKey(node, Keys.oneOf)
    IN  IF list.kind = "array"
        THEN SelectSeq(list.vals, LAMBDA v : v.kind = "object")
        ELSE <<>>

Declares(v, key) == HasKey(v, key) /\ Truthy(GetKey(v, key))

IsSpecific(v) == Declares(v, Keys.enum) \/ Declares(v, Keys.properties)

\* The candidate the described precedence selects.
ChosenCandidate(node) ==
    LET cs == Candidates(node)
    IN  IF Len(cs) = 1 THEN cs[1]
        ELSE IF \E i \in DOMAIN cs : IsSpecific(cs[i])
        THEN cs[CHOOSE i \in DOMAIN cs :
                   IsSpecific(cs[i]) /\ \A j \in 1..(i - 1) : ~IsSpecific(cs[j])]
        ELSE cs[1]

\* The candidate with the parent's description in place of its own; a union
\* the candidate itself carries is not flattened again.
Replacement(node) ==
    LET c == ChosenCandidate(node)
        d == IF Declares(node, Keys.description)
             THEN SetKey(c, Keys.description, GetKey(node, Keys.description)) ELSE c
    IN  KeepEntries(d, {i \in 1..Len(d.keys) : d.keys[i] \notin {Keys.anyOf, Keys.oneOf}})

\* C27: union flattening in sanitizeSchema follows a fixed precedence: a node
\* with exactly one object candidate is replaced by that candidate; with
\* several candidates by the first that declares enum or properties, and if
\* none does, by the first candidate; in every case the parent's description,
\* when present, overrides the candidate's; {anyOf: [{type: "string"}]}
\* normalizes to {type: "string"}.
C27_UnionPrecedence ==
    /\ (npc = "ensure" /\ StrippedInput.kind = "object"
            /\ Len(Candidates(StrippedInput)) >= 1) =>
          cleaned = sanitizeSchema(Replacement(StrippedInput))
    /\ (npc = "ensure"
            /\ inputSchema = Obj1(Keys.anyOf, JArr(<<Obj1(Keys.type, TypeName.string)>>))) =>
          cleaned = Obj1(Keys.type, TypeName.string)

\* Two candidates of which the second is the first to declare enum or
\* properties: the node is replaced by the second.
C27_Witness ==
    /\ npc = "ensure"
    /\ StrippedInput.kind = "object"
    /\ Len(Candidates(StrippedInput)) = 2
    /\ ~IsSpecific(Candidates(StrippedInput)[1])
    /\ IsSpecific(Candidates(StrippedInput)[2])
    /\ HasKey(cleaned, Keys.enum)

\* One candidate with a description of its own under a parent with another.
DescriptionOverridden ==
    /\ npc = "ensure"
    /\ StrippedInput.kind = "object"
    /\ Len(Candidates(StrippedInput)) = 1
    /\ Declares(Candidates(StrippedInput)[1], Keys.description)
    /\ GetKey(Candidates(StrippedInput)[1], Keys.description) # GetKey(StrippedInput, Keys.description)
    /\ GetKey(cleaned, Keys.description) = GetKey(StrippedInput, Keys.description)

\* The type the described order infers for a node without a type.
InferredType(node) ==
    IF Declares(node, Keys.properties) THEN JStr(<<"object">>)
    ELSE IF Declares(node, Keys.items) THEN JStr(<<"array">>)
    ELSE IF Declares(node, Keys.enum) THEN JStr(<<"string">>)
    ELSE JStr(<<"object">>)

\* after is before with a type inferred for every node that lacks one, at
\* every nesting level, and nothing else changed.
RECURSIVE TypesInferred(_, _)
TypesInferred(before, after) ==
    IF before.kind = "array"
    THEN /\ after.kind = "array"
         /\ Len(after.vals) = Len(before.vals)
         /\ \A i \in 1..Len(before.vals) : TypesInferred(before.vals[i], after.vals[i])
    ELSE IF before.kind # "object" THEN after = before
    ELSE /\ after.kind = "object"
         /\ {after.keys[i] : i \in 1..Len(after.keys)} =
               {before.keys[i] : i \in 1..Len(before.keys)} \cup {Keys.type}
         /\ GetKey(after, Keys.type) =
               (IF Declares(before, Keys.type) THEN GetKey(before, Keys.type)
                ELSE InferredType(before))
         /\ \A i \in 1..Len(before.keys) :
               LET key == before.keys[i]
                   value == before.vals[i]
                   result == GetKey(after, key)
               IN  IF key = Keys.type THEN TRUE
                   ELSE IF key = Keys.properties /\ value.kind = "object"
                   THEN /\ result.kind = "object"
                        /\ result.keys = value.keys
                        /\ \A j \in 1..Len(value.vals) :
                              TypesInferred(value.vals[j], result.vals[j])
                   ELSE IF key = Keys.items THEN TypesInferred(value, result)
                   ELSE result = value

\* C28: ensureSchemaType leaves a declared type unchanged and gives every
\* node lacking a type, at every nesting level, the type "object" if it has
\* properties, else "array" if it has items, else "string" if it has enum,
\* else "object"; {properties: {x: {type: "string"}}} gains type "object".
C28_TypeInference ==
    /\ npc = "done" => TypesInferred(SanitizedInput, cleaned)
    /\ (npc = "done"
            /\ inputSchema = Obj1(Keys.properties, Obj1(Keys.x, Obj1(Keys.type, TypeName.string)))) =>
          /\ GetKey(cleaned, Keys.type) = TypeName.object
          /\ GetKey(cleaned, Keys.properties) = Obj1(Keys.x, Obj1(Keys.type, TypeName.string))

\* A node without a type that holds items, nested under a node without a
\* type that holds properties.
C28_Witness ==
    /\ npc = "done"
    /\ SanitizedInput.kind = "object"
    /\ ~HasKey(SanitizedInput, Keys.type)
    /\ GetKey(cleaned, Keys.type) = TypeName.object
    /\ \E i \in 1..Len(GetKey(cleaned, Keys.properties).vals) :
          LET inner == GetKey(SanitizedInput, Keys.properties).vals[i]
          IN  /\ inner.kind = "object"
              /\ ~HasKey(inner, Keys.type)
              /\ HasKey(inner, Keys.items)
              /\ GetKey(GetKey(cleaned, Keys.properties).vals[i], Keys.type) = TypeName.array

----------------------------------------------------------------------------
(* The split of the upstream bytes into reads (C26).                       *)

\* The complete lines among the first n bytes of the body.
CompleteLines(n) ==
    LET segments == SplitLf(SubSeq(upstream, 1, n))
    IN  SubSeq(segments, 1, Len(segments) - 1)

\* The translator after one pass over the complete lines of the first n
\* bytes.
OnePass(n) ==
    ProcessLines(StreamState(0, FALSE, 0, 0, <<MessageStart>>, 0, FALSE),
                 CompleteLines(n))

\* C26: the client events depend only on the upstream bytes, not on how
\* they are split into reads: for every partition of the bytes into read
\* chunks, splits inside a data line included, each line that a line feed
\* ends is processed exactly once and in order, and the events are the same.
C26_SplitIndependent ==
    /\ spc = "reading" =>
          /\ Current = OnePass(delivered)
          /\ SplitLf(SubSeq(upstream, 1, delivered)) = Append(CompleteLines(delivered), buffer)
    /\ spc = "done" =>
          events = OnePass(Len(upstream)).events \o ClosingEvents(OnePass(Len(upstream)))

\* A line was translated, and the next read ended inside a data line, whose
\* first half is carried over.
C26_Witness ==
    /\ spc = "reading"
    /\ reads >= 2
    /\ buffer = <<Sym(2, 1)>>
    /\ \E i \in DOMAIN events : events[i].kind = "text_delta"

----------------------------------------------------------------------------
(* The credential (C21, C29).                                              *)

\* C21: getToken performs no token exchange while the cached credential is
\* not past its expiry, and returns the cached token; when the credential is
\* past its expiry, getToken performs a token exchange and, when it
\* succeeds, returns a token issued since the call, which is the
\* process-wide credential with its new expiry, written to the file before
\* getToken returns.
C21_RefreshWhenExpired ==
    \A c \in Callers :
        LET call == callers[c]
        IN  /\ (call.pc # "idle" /\ ~call.sawExpired) =>
                  /\ ~call.exchanged
                  /\ call.pc = "returned"
                  /\ call.returned = call.cachedAtCall
            /\ (call.pc # "idle" /\ call.sawExpired) => call.exchanged
            /\ (call.pc = "returned" /\ call.sawExpired) =>
                  /\ call.returned > call.issuedAtCall
                  /\ call.returned = call.retCreds.access_token
                  /\ call.retCreds.expires_at # Absent
                  /\ call.retFile = call.retCreds

\* One request returned the cached token without an exchange; later the
\* credential expired and the other request returned the token of its own
\* exchange.
C21_Witness ==
    /\ callers[1].pc = "returned" /\ ~callers[1].exchanged /\ callers[1].returned = 0
    /\ callers[2].pc = "returned" /\ callers[2].exchanged /\ callers[2].returned = 1
    /\ credFile = Creds(1, now + DefaultExpiresIn * MsPerSecond - ExpiryMarginMs)

\* Both requests sent an exchange, and neither exchange had completed when
\* the other request called.
InFlightTogether ==
    /\ callers[1].exchanged /\ callers[2].exchanged
    /\ callers[1].issuedAtCall = callers[2].issuedAtCall

\* C29: credential refreshes are not mutually excluded: a request that
\* calls getToken while the credential is past its expiry sends its own
\* token exchange, also while another request's exchange is in flight, and
\* every exchange that completes overwrites the shared credential and the
\* file.
C29_RefreshesNotSerialized ==
    [][\A c \in Callers :
        /\ (callers[c].pc = "idle" /\ callers'[c].pc # "idle"
                /\ now >= (IF TruthyNum(creds.expires_at) THEN creds.expires_at ELSE 0)) =>
              callers'[c].pc = "fetching"
        /\ (callers[c].pc = "fetching" /\ callers'[c].pc = "refreshed") =>
              /\ creds'.access_token = callers'[c].own
              /\ creds' # creds
              /\ credFile' = creds']_vars

\* Both requests saw the expiry before either refresh completed; both
\* exchanges completed, and the second overwrote the credential the first
\* had stored.
C29_Witness ==
    /\ \A c \in Callers : callers[c].pc \in {"refreshed", "returned"}
    /\ InFlightTogether
    /\ {callers[1].own, callers[2].own} = {1, 2}
    /\ creds.access_token = 2
    /\ credFile = creds

----------------------------------------------------------------------------
(* Two connections at once (C30).                                          *)

\* The translator of a request handled alone, after one pass over the
\* complete lines of the first n bytes of its body.
Alone(body, n) ==
    LET segments == SplitLf(SubSeq(body, 1, n))
    IN  ProcessLines(StreamState(0, FALSE, 0, 0, <<MessageStart>>, 0, FALSE),
                     SubSeq(segments, 1, Len(segments) - 1))

\* C30: concurrent connections do not interfere: under every interleaving
\* of two streaming requests, the events written to each client, and the
\* block index, open flag and token counters of each connection, are those
\* the request has when it is handled alone.
C30_NoInterference ==
    \A c \in Connections :
        /\ conns[c].pc = "reading" =>
              conns[c].s = Alone(conns[c].upstream, conns[c].delivered)
        /\ conns[c].pc = "done" =>
              LET s == Alone(conns[c].upstream, conns[c].delivered)
              IN  conns[c].s.events = s.events \o ClosingEvents(s)

\* The first connection is closed while the second, with a different body,
\* is inside a data line after its first block.
C30_Witness ==
    /\ conns[1].pc = "done"
    /\ conns[2].pc = "reading"
    /\ conns[1].upstream # conns[2].upstream
    /\ conns[2].buffer # <<>>
    /\ conns[2].s.contentIndex = 1
    /\ conns[1].s.contentIndex = 2

----------------------------------------------------------------------------
(* The role-alternation merge keeps the parts (C33).                       *)

\* The parts of a turn list, in order.
PartsOf(turns) == Flatten([i \in 1..Len(turns) |-> turns[i].parts])

\* The positions of rawContents at which a run of equal roles begins.
RunStarts ==
    {i \in 1..Len(rawContents) : i = 1 \/ rawContents[i].role # rawContents[i - 1].role}

\* The position at which the k-th run begins, and the one at which it ends.
RunStart(k) == CHOOSE i \in RunStarts : Cardinality({j \in RunStarts : j <= i}) = k
RunEnd(k) ==
    IF k = Cardinality(RunStarts) THEN Len(rawContents) ELSE RunStart(k + 1) - 1

\* C33: the role-alternation merge neither drops, duplicates nor reorders
\* parts, and merges a turn into its predecessor exactly when their roles
\* are equal: the parts of the merged list are the parts of the turns
\* before merging, in order, and the merged list has one turn for every run
\* of equal roles, with the role of the run and the parts of its turns.
C33_MergeKeepsParts ==
    cpc \in {"config", "done"} =>
        /\ PartsOf(contents) = PartsOf(rawContents)
        /\ Len(contents) = Cardinality(RunStarts)
        /\ \A k \in 1..Len(contents) :
              /\ contents[k].role = rawContents[RunStart(k)].role
              /\ contents[k].parts =
                    PartsOf(SubSeq(rawContents, RunStart(k), RunEnd(k)))

\* Turns were merged and turns were kept apart: a run of two turns with
\* parts each, next to a turn of the other role.
C33_Witness ==
    /\ cpc = "done"
    /\ Len(contents) >= 2
    /\ \E k \in 1..Len(contents) :
          /\ RunEnd(k) > RunStart(k)
          /\ rawContents[RunStart(k)].parts # <<>>
          /\ rawContents[RunEnd(k)].parts # <<>>
          /\ rawContents[RunStart(k)].parts # rawContents[RunEnd(k)].parts

----------------------------------------------------------------------------
(* The field that holds a tool's schema (C34).                             *)

\* C34: for every client model name, the normalized schema of every tool is
\* attached under parameters and never under parametersJsonSchema: every
\* target the tools are built for begins with "claude-", so the other field
\* name is never chosen.
C34_ParametersField ==
    /\ \A i \in 1..Len(declarations) : declarations[i].field # "parametersJsonSchema"
    /\ cpc \in {"tools", "done"} => StartsWith(googleModel, Words.claude \o <<"-">>)
    /\ (cpc = "done" /\ reqTools.present) =>
          /\ Len(declarations) = Len(reqTools.list)
          /\ \A i \in 1..Len(declarations) :
                /\ declarations[i].field = "parameters"
                /\ declarations[i].name = reqTools.list[i].name
                /\ declarations[i].schema = CleanedSchema(reqTools.list[i].input_schema)

\* Two tools were declared for a model name that is not in the table and
\* holds neither "opus" nor "sonnet".
C34_Witness ==
    /\ cpc = "done"
    /\ req.model = Names.other
    /\ Len(declarations) = 2
    /\ declarations[1].schema # declarations[2].schema

----------------------------------------------------------------------------
(* The two translators on the same backend response (C32).                 *)

\* The stop_reason of the stream's message_delta.
StreamStopReason ==
    events[CHOOSE k \in Positions("message_delta") : TRUE].kind

\* The tool_use blocks of the stream, in order: the name of each
\* content_block_start and the arguments of its input_json_delta.
IsToolStart(e) == e.type = "content_block_start" /\ e.kind = "tool_use"
IsInputJsonDelta(e) == e.type = "content_block_delta" /\ e.kind = "input_json_delta"
StreamToolUses ==
    LET starts == SelectSeq(events, IsToolStart)
        deltas == SelectSeq(events, IsInputJsonDelta)
    IN  [i \in 1..Len(starts) |->
            ToolUseContent(starts[i].name,
                           IF i <= Len(deltas) THEN deltas[i].data ELSE Undef)]

\* The concatenation of the stream's text_delta fragments.
StreamText == Flatten([i \in 1..Len(TextDeltas) |-> TextDeltas[i].data])

BothDone == spc = "done" /\ bpc = "done"

\* C32: for the same backend event sequence the stream translator and the
\* batch translator agree: the stop_reason of the stream's message_delta
\* is the batch stop_reason, the stream's tool_use blocks are the batch's
\* tool_use blocks (same names and arguments, same order), and the
\* concatenation of the stream's text_delta fragments is the batch's text.
C32_TranslatorsAgree ==
    BothDone =>
        /\ StreamStopReason = anthropicResp.stop_reason
        /\ StreamToolUses = ToolUseBlocksOf(anthropicResp.content)
        /\ StreamText = BatchText

\* The three parts of the agreement, each on its own.
StopReasonAgrees == BothDone => StreamStopReason = anthropicResp.stop_reason
ToolUsesAgree == BothDone => StreamToolUses = ToolUseBlocksOf(anthropicResp.content)
TextAgrees == BothDone => StreamText = BatchText

\* A part of the body bears on the agreement when the translators read it
\* differently: text marked as a thought or carrying a signature, or a
\* function call next to a skipped text or signature.
IsPlainPart(part) ==
    /\ ~part.isNull
    /\ ~part.thought
    /\ ~TruthyStr(part.thoughtSignature)

\* On bodies of plain parts in which no text follows a function call, the
\* translators agree.
PlainBodiesAgree ==
    (/\ BothDone
     /\ \A i \in 1..Len(BodyParts(googleSSE)) : IsPlainPart(BodyParts(googleSSE)[i])
     /\ \A i, j \in 1..Len(BodyParts(googleSSE)) :
           (i <= j /\ BodyParts(googleSSE)[i].functionCall.present)
               => (i = j \/ BodyParts(googleSSE)[j].text = Undef)
     /\ \A i \in 1..Len(BodyParts(googleSSE)) :
           ~(BodyParts(googleSSE)[i].functionCall.present
             /\ BodyParts(googleSSE)[i].text # Undef))
        => /\ StreamStopReason = anthropicResp.stop_reason
           /\ StreamToolUses = ToolUseBlocksOf(anthropicResp.content)
           /\ StreamText = BatchText

----------------------------------------------------------------------------
(* Every request is answered (C31); a failed token exchange (C35).         *)

\* C31: every request the server accepted eventually receives exactly one
\* complete response, on every path through the handler, the paths on which
\* request translation, token acquisition or the endpoint race fails
\* included: a response is eventually written, and once written it is
\* never written again.
C31_ExactlyOneResponse ==
    /\ <>(hpc = "responded" /\ response # NoResponse)
    /\ [][response # NoResponse => response' = response]_vars

\* Every request whose translation does not throw is answered.
AnsweredUnlessCrashed == <>(hpc \in {"responded", "crashed"})

\* The handler ended without a response.
CrashedWithoutResponse == hpc = "crashed" /\ response = NoResponse

\* No fetch was issued to a backend endpoint.
NoEndpointContacted == \A i \in DOMAIN ENDPOINTS : sent[i] = NothingSent

\* C35: when the token exchange returns no access token, getToken fails
\* with the cached credential, its expiry and the persisted file unchanged;
\* no backend endpoint is contacted for that request, and the client
\* receives a 500 api_error response.
C35_TokenFailure ==
    /\ [][\A c \in Callers :
            (callers[c].pc = "fetching" /\ callers'[c].pc = "failed") =>
                (creds' = creds /\ credFile' = credFile)]_vars
    /\ [](callers[1].pc = "failed" =>
            /\ NoEndpointContacted
            /\ hpc \in {"token", "responded"}
            /\ hpc = "responded" =>
                  /\ response.status = 500
                  /\ response.envelope = "typed"
                  /\ response.type = "api_error")
    /\ (callers[1].pc = "failed") ~> (hpc = "responded" /\ response.status = 500)

\* The request's token exchange failed while the other request's exchange
\* had stored a new token, and the request was answered.
C35_Witness ==
    /\ callers[1].pc = "failed"
    /\ callers[2].pc = "returned" /\ callers[2].exchanged
    /\ creds.access_token = 1
    /\ hpc = "responded"
    /\ response.status = 500
    /\ NoEndpointContacted

============================================================================
